---- MODULE Spec2Model ----
(***************************************************************************)
(* The responder event system of react-gui                                 *)
(* (src/src/exports/use-responder/ResponderSystem.js and utils.js): one    *)
(* global interaction lock that native DOM events grant, transfer,         *)
(* release and terminate.                                                  *)
(***************************************************************************)
EXTENDS Integers, Sequences, FiniteSets, TLC

(***************************************************************************)
(* Bounds of the model.                                                    *)
(***************************************************************************)
\* the largest number of simultaneously active touch points
MaxTouches == 2
\* the largest number of move events of one gesture (GestureSpec)
MaxMoves == 3

(***************************************************************************)
(* The DOM.  Node 1 is the root element; the document is either the chain  *)
(* 1 <- 2 <- 3 or the fork 1 <- 2, 1 <- 3 (parent holds the parentNode of  *)
(* each element).  Null stands for JavaScript's null / undefined and       *)
(* Window for the window object (the target of a window blur).             *)
(***************************************************************************)
Null == 0
Window == 4
Nodes == 1..3
Trees == { <<Null, 1, 2>>, <<Null, 1, 1>> }

VARIABLE parent

\* null as the value of an event path: a sequence no event path can equal
NullPath == <<Null>>

RECURSIVE composedPathFallback(_)
composedPathFallback(target) ==
  IF target \in Nodes
    THEN <<target>> \o composedPathFallback(parent[target])
    ELSE <<>>

getEventPath(target) == composedPathFallback(target)

\* Node.contains: a is b or an ancestor of b
contains(a, b) ==
  \E i \in 1..Len(composedPathFallback(b)) : composedPathFallback(b)[i] = a

(***************************************************************************)
(* JavaScript arrays are indexed from 0.                                   *)
(***************************************************************************)
At(path, i) == IF i >= 0 /\ i < Len(path) THEN path[i + 1] ELSE Null

indexOf(path, x) ==
  IF \E i \in 1..Len(path) : path[i] = x
    THEN (CHOOSE i \in 1..Len(path) :
            path[i] = x /\ \A j \in 1..(i - 1) : path[j] # x) - 1
    ELSE -1

slice(path, from) == SubSeq(path, from + 1, Len(path))

(***************************************************************************)
(* getLowestCommonAncestor: the lockstep walk of the two aligned paths.    *)
(* The loop reads pathA[indexA++], so the item compared in an iteration is *)
(* the one read in the iteration before.                                   *)
(***************************************************************************)
RECURSIVE lcaWalk(_, _, _, _, _, _, _)
lcaWalk(pathA, pathB, itemA, itemB, indexA, indexB, depth) ==
  IF depth = 0 THEN Null
  ELSE IF itemA = itemB THEN itemA
  ELSE lcaWalk(pathA, pathB, At(pathA, indexA), At(pathB, indexB),
               indexA + 1, indexB + 1, depth - 1)

getLowestCommonAncestor(pathA, pathB) ==
  LET pathALength == Len(pathA)
      pathBLength == Len(pathB)
  IN IF \/ pathALength = 0
        \/ pathBLength = 0
        \/ pathA[pathALength] # pathB[pathBLength]
       THEN Null
       ELSE LET indexA == IF pathALength - pathBLength > 0
                            THEN pathALength - pathBLength ELSE 0
                lengthA == IF pathALength - pathBLength > 0
                             THEN pathBLength ELSE pathALength
                indexB == IF pathBLength - lengthA > 0
                            THEN pathBLength - lengthA ELSE 0
            IN lcaWalk(pathA, pathB, At(pathA, indexA), At(pathB, indexB),
                       indexA, indexB, lengthA)


(***************************************************************************)
(* Responder configs.  A "shouldSet" callback is "absent", returns "true"  *)
(* or "false", or ("stop") calls stopPropagation on the responder event    *)
(* and returns false.  onResponderTerminationRequest is "absent" or        *)
(* returns "true" or "false".  For the other callbacks the config records  *)
(* whether they are defined.  NoConfig is the null config of a node that   *)
(* is not attached to the responder system.                                *)
(***************************************************************************)
EmptyConfig ==
  [ attached |-> TRUE,
    onStartShouldSetResponderCapture |-> "absent",
    onStartShouldSetResponder |-> "absent",
    onMoveShouldSetResponderCapture |-> "absent",
    onMoveShouldSetResponder |-> "absent",
    onScrollShouldSetResponderCapture |-> "absent",
    onScrollShouldSetResponder |-> "absent",
    onSelectShouldSetResponderCapture |-> "absent",
    onSelectShouldSetResponder |-> "absent",
    onResponderTerminationRequest |-> "absent",
    onResponderGrant |-> FALSE,
    onResponderReject |-> FALSE,
    onResponderStart |-> FALSE,
    onResponderMove |-> FALSE,
    onResponderEnd |-> FALSE,
    onResponderRelease |-> FALSE,
    onResponderTerminate |-> FALSE ]

NoConfig == [EmptyConfig EXCEPT !.attached = FALSE]

\* a config that defines every lifecycle callback
Lifecycle ==
  [EmptyConfig EXCEPT !.onResponderGrant = TRUE, !.onResponderReject = TRUE,
                      !.onResponderStart = TRUE, !.onResponderMove = TRUE,
                      !.onResponderEnd = TRUE, !.onResponderRelease = TRUE,
                      !.onResponderTerminate = TRUE]

(***************************************************************************)
(* Event types (ResponderEventTypes).                                      *)
(***************************************************************************)
BLUR == "blur"
CONTEXT_MENU == "contextmenu"
MOUSE_DOWN == "mousedown"
MOUSE_MOVE == "mousemove"
MOUSE_UP == "mouseup"
MOUSE_CANCEL == "dragstart"
TOUCH_START == "touchstart"
TOUCH_MOVE == "touchmove"
TOUCH_END == "touchend"
TOUCH_CANCEL == "touchcancel"
SCROLL == "scroll"
SELECT == "select"

isStartish(eventType) == eventType = TOUCH_START \/ eventType = MOUSE_DOWN
isMoveish(eventType) == eventType = TOUCH_MOVE \/ eventType = MOUSE_MOVE
\* variant: a cancel class that forgets the mouse's dragstart
isCancelish_TouchOnly(eventType) == eventType = TOUCH_CANCEL

isCancelish(eventType) == eventType = TOUCH_CANCEL \/ eventType = MOUSE_CANCEL
\* variant: an end class that forgets mouseup
isEndish_NoMouseUp(eventType) ==
  eventType = TOUCH_END \/ eventType = TOUCH_CANCEL
    \/ eventType = MOUSE_CANCEL

isEndish(eventType) ==
  eventType = TOUCH_END \/ eventType = MOUSE_UP \/ isCancelish(eventType)
isScroll(eventType) == eventType = SCROLL
isSelect(eventType) == eventType = SELECT

\* domEvent.touches is an array on touch events and undefined otherwise
hasTouchList(domEvent) ==
  domEvent.type \in {TOUCH_START, TOUCH_MOVE, TOUCH_END, TOUCH_CANCEL}

\* variant: accepts a primary mouse event whatever keys are held
isPrimaryPointerDown_AnyModifiers(domEvent) ==
  \/ domEvent.type = TOUCH_START \/ domEvent.type = TOUCH_MOVE
  \/ domEvent.type = MOUSE_DOWN
       /\ (domEvent.button = 0 \/ domEvent.buttons = 1)
  \/ domEvent.type = MOUSE_MOVE /\ domEvent.buttons = 1

isPrimaryPointerDown(domEvent) ==
  LET type == domEvent.type
      isTouch == type = TOUCH_START \/ type = TOUCH_MOVE
      isPrimaryMouseDown ==
        type = MOUSE_DOWN /\ (domEvent.button = 0 \/ domEvent.buttons = 1)
      isPrimaryMouseMove == type = MOUSE_MOVE /\ domEvent.buttons = 1
      noModifiers == domEvent.altKey = FALSE /\ domEvent.ctrlKey = FALSE
  IN \/ isTouch
     \/ (isPrimaryMouseDown /\ noModifiers)
     \/ (isPrimaryMouseMove /\ noModifiers)

\* variant: compares the touch's target with the responder instead of asking
\* whether the responder contains it
hasTargetTouches_ExactTarget(target, domEvent) ==
  IF ~hasTouchList(domEvent) \/ Len(domEvent.touches) = 0
    THEN FALSE
    ELSE \E i \in 1..Len(domEvent.touches) : target = domEvent.touches[i]

hasTargetTouches(target, domEvent) ==
  IF ~hasTouchList(domEvent) \/ Len(domEvent.touches) = 0
    THEN FALSE
    ELSE \E i \in 1..Len(domEvent.touches) :
           contains(target, domEvent.touches[i])

(***************************************************************************)
(* The configs the hosts register, by name: "null" detaches the node,      *)
(* "bubble" wants the responder on a start, "capture" wants it in the      *)
(* capture phase of a start and refuses to be terminated, "move" wants it  *)
(* on a move or a scroll, allows termination and defines only the move,    *)
(* end and release callbacks; "empty" attaches the node without callbacks  *)
(* and "refuse" answers false to every start and move question; "select"   *)
(* and "selectCapture" want the responder on a select; "press" is the      *)
(* config usePress registers for an enabled target (its termination        *)
(* request refuses only a contextmenu of a touch); "pan" is the config     *)
(* usePan registers when only onStartShouldSetPan is given and is true,    *)
(* "panMove" the one it registers when only onMoveShouldSetPanCapture is   *)
(* given and is true.                                                      *)
(* The predicates "stop" of "stopCapture" and "stopBubble" call             *)
(* stopPropagation on the responder event and return nothing;              *)
(* "scrollRefuse" answers false to both scroll questions; "eager" wants    *)
(* the responder on a start, a move and a scroll and allows termination.   *)
(***************************************************************************)
Configs ==
  [ null |-> NoConfig,
    empty |-> EmptyConfig,
    refuse |-> [Lifecycle EXCEPT !.onStartShouldSetResponderCapture = "false",
                                 !.onStartShouldSetResponder = "false",
                                 !.onMoveShouldSetResponderCapture = "false",
                                 !.onMoveShouldSetResponder = "false"],
    bubble |-> [Lifecycle EXCEPT !.onStartShouldSetResponder = "true"],
    capture |-> [Lifecycle EXCEPT !.onStartShouldSetResponderCapture = "true",
                                  !.onStartShouldSetResponder = "true",
                                  !.onMoveShouldSetResponder = "false",
                                  !.onResponderTerminationRequest = "false"],
    move |-> [EmptyConfig EXCEPT !.onMoveShouldSetResponder = "true",
                                 !.onScrollShouldSetResponder = "true",
                                 !.onResponderTerminationRequest = "true",
                                 !.onResponderMove = TRUE,
                                 !.onResponderEnd = TRUE,
                                 !.onResponderRelease = TRUE],
    select |-> [Lifecycle EXCEPT !.onSelectShouldSetResponder = "true"],
    selectCapture |->
      [Lifecycle EXCEPT !.onSelectShouldSetResponderCapture = "true"],
    stopCapture |->
      [Lifecycle EXCEPT !.onStartShouldSetResponderCapture = "stop",
                        !.onStartShouldSetResponder = "true",
                        !.onMoveShouldSetResponderCapture = "stop",
                        !.onScrollShouldSetResponderCapture = "stop",
                        !.onScrollShouldSetResponder = "true"],
    stopBubble |->
      [Lifecycle EXCEPT !.onStartShouldSetResponder = "stop",
                        !.onMoveShouldSetResponder = "stop",
                        !.onScrollShouldSetResponder = "stop"],
    scrollRefuse |->
      [Lifecycle EXCEPT !.onScrollShouldSetResponderCapture = "false",
                        !.onScrollShouldSetResponder = "false",
                        !.onResponderTerminationRequest = "true"],
    pan |-> [Lifecycle EXCEPT !.onStartShouldSetResponderCapture = "false",
                              !.onStartShouldSetResponder = "true",
                              !.onMoveShouldSetResponderCapture = "false",
                              !.onMoveShouldSetResponder = "false",
                              !.onResponderTerminationRequest = "true"],
    eager |-> [Lifecycle EXCEPT !.onStartShouldSetResponder = "true",
                                !.onMoveShouldSetResponder = "true",
                                !.onScrollShouldSetResponder = "true",
                                !.onResponderTerminationRequest = "true"],
    panMove |->
      [Lifecycle EXCEPT !.onStartShouldSetResponderCapture = "false",
                        !.onStartShouldSetResponder = "false",
                        !.onMoveShouldSetResponderCapture = "true",
                        !.onMoveShouldSetResponder = "false",
                        !.onResponderTerminationRequest = "true"],
    press |-> [EmptyConfig EXCEPT !.onStartShouldSetResponder = "true",
                                  !.onResponderTerminationRequest = "true",
                                  !.onResponderGrant = TRUE,
                                  !.onResponderMove = TRUE,
                                  !.onResponderRelease = TRUE,
                                  !.onResponderTerminate = TRUE] ]

(***************************************************************************)
(* The state of the program.                                               *)
(***************************************************************************)
VARIABLES
  config,            \* node -> the name of its __reactResponderConfig
  currentResponder,  \* [node, responderEventPath]
  trackedTouchCount,
  touches,           \* the browser's list of active touch points (targets)
  log,               \* the callbacks the last call invoked, in order
  lastEvent,         \* the native event the last call processed
  prevResponder,     \* currentResponder when the last call began
  prevCount,         \* trackedTouchCount when the last call began
  wanted,            \* the node the last call found to want the responder
  seen,              \* getResponderNode() during each callback of log
  tracked,           \* the last call recorded the touch track of its event
  counted            \* the touch count when the callbacks of the last call ran

\* one gesture of one pointer, watched from its start to its end
VARIABLES
  gnode,             \* the node the pointer is on
  pointer,           \* "touch" or "mouse"
  phase,             \* "idle", "down" or "done"
  moves,             \* the move events processed so far
  trace              \* the callbacks invoked so far, in order

\* one application of getLowestCommonAncestor
VARIABLES lcaA, lcaB, lcaOut, lcaDone

engineVars == <<parent, config, currentResponder, trackedTouchCount, touches>>
historyVars ==
  <<log, lastEvent, prevResponder, prevCount, wanted, seen, tracked, counted, counted>>
gestureVars == <<gnode, pointer, phase, moves, trace>>
lcaVars == <<lcaA, lcaB, lcaOut, lcaDone>>

\* the wiring of the native events
VARIABLES
  active,            \* window.__reactResponderSystemActive
  listeners,         \* how often addEvent was called for a target and type
  attachCalls,       \* the calls of attachListeners so far
  processed          \* how often eventListener ran for the last native event

wiringVars == <<active, listeners, attachCalls, processed>>

\* usePress on one target
VARIABLES
  press,             \* stateRef.current
  pressPhase,        \* "up", "down", "cancelled", "released" or "clicked"
  elapsed,           \* the time since the pointer went down
  origin,            \* where the pointer went down
  strayed,           \* the pointer moved beyond the threshold
  held,              \* the long-press delay elapsed with the pointer down
  longPresses,       \* the onLongPress calls of the gesture
  presses            \* the onPress calls of the gesture

pressVars ==
  <<press, pressPhase, elapsed, origin, strayed, held, longPresses, presses>>

\* usePan on one target, and the touch history store
VARIABLES
  gestureState,      \* gestureStateRef.current, X axis
  interactionState,  \* interactionStateRef.current
  touchHistory,      \* ResponderTouchHistoryStore.touchHistory, X axis
  noCentroid,        \* what the math answers for the centroid of no touch
  now,               \* the time stamp of the last touch event
  lastMove           \* what the last touch event moved, and from which state

panVars ==
  <<gestureState, interactionState, touchHistory, noCentroid, now, lastMove>>

\* useHover on nested regions, region r + 1 inside region r
VARIABLES
  hoverBubbles,      \* region -> the bubbles entry of its config
  hoverAt,           \* the innermost region under the pointer, 0 for none
  pointerType,       \* the type of the pointer over the regions
  hovered,           \* region -> its last hover callback was onHoverStart
  listening,         \* region -> its on-demand listeners are attached
  hoverCalls         \* region -> its hover callbacks so far, in order

hoverVars ==
  <<hoverBubbles, hoverAt, pointerType, hovered, listening, hoverCalls>>

\* the state of the hooks built on, or beside, the responder system
\* useFocusWithin on one target
VARIABLES
  focusWithinRef,    \* focusWithinRef.current
  focusDisabled,     \* the disabled of the config the listeners closed over
  focusIsElement,    \* the target is an HTMLElement
  focusCalls,        \* the arguments of the onFocusWithinChange calls
  lastFocus          \* the last focus event and the calls it made

focusVars ==
  <<focusWithinRef, focusDisabled, focusIsElement, focusCalls, lastFocus>>

\* the modality tracker and the window it listens to
VARIABLES
  tracker,           \* the module state of the modality tracker
  pointerEvents,     \* supportsPointerEvent()
  blurs,             \* the window blur events since the last other event
  beforeBlur,        \* the modalities before the first of these blurs
  lastWindow,        \* the last event the tracker heard
  grantedBy          \* the native event that granted the current responder

modalityVars ==
  <<tracker, pointerEvents, blurs, beforeBlur, lastWindow, grantedBy>>

\* the keyboard side of usePress
VARIABLES
  pressCalls         \* the callbacks of the config usePress has invoked

\* useInteractOutside on one host
VARIABLES
  clickListeners,    \* the click listeners of the document, in order
  cleanupRef,        \* cleanupRef.current of useRefCallback
  outsideTarget,     \* the element the ref is attached to, Null for none
  outsideDisabled,   \* the disabled of the config of the last render
  outsideCalls,      \* the onInteractOutside calls of the last click
  lastClick          \* where the last click was, "none" before it

outsideVars ==
  <<clickListeners, cleanupRef, outsideTarget, outsideDisabled, outsideCalls,
    lastClick>>

hookVars == <<focusVars, modalityVars, pressCalls, outsideVars>>

componentVars == <<wiringVars, pressVars, panVars, hoverVars, hookVars>>

vars == <<engineVars, historyVars, gestureVars, lcaVars, componentVars>>

emptyResponder == [node |-> Null, responderEventPath |-> NullPath]

getResponderConfig(node) ==
  IF node \in Nodes /\ Configs[config[node]].attached
    THEN Configs[config[node]] ELSE EmptyConfig

RECURSIVE filterAttached(_)
filterAttached(eventPath) ==
  IF eventPath = <<>> THEN <<>>
  ELSE (IF Configs[config[Head(eventPath)]].attached THEN <<Head(eventPath)>> ELSE <<>>)
       \o filterAttached(Tail(eventPath))

\* variant: keeps the nodes that have no config
getResponderEventPath_Unfiltered(domEvent) == getEventPath(domEvent.target)

getResponderEventPath(domEvent) == filterAttached(getEventPath(domEvent.target))

(***************************************************************************)
(* shouldSetResponderEvents: the capture name, the bubble name and the     *)
(* bubbles flag of an event type; "select" and the rest have no entry.     *)
(***************************************************************************)
hasShouldSetCallbacks(eventType) ==
  eventType \in {TOUCH_START, MOUSE_DOWN, TOUCH_MOVE, MOUSE_MOVE, SCROLL}

shouldSetResponderEvents(eventType) ==
  IF eventType \in {TOUCH_START, MOUSE_DOWN}
    THEN [capture |-> "onStartShouldSetResponderCapture",
          bubble |-> "onStartShouldSetResponder", bubbles |-> TRUE]
  ELSE IF eventType \in {TOUCH_MOVE, MOUSE_MOVE}
    THEN [capture |-> "onMoveShouldSetResponderCapture",
          bubble |-> "onMoveShouldSetResponder", bubbles |-> TRUE]
  ELSE [capture |-> "onScrollShouldSetResponderCapture",
        bubble |-> "onScrollShouldSetResponder", bubbles |-> FALSE]

\* the callbackName entry of the config c
configEntry(c, callbackName) ==
     CASE callbackName = "onStartShouldSetResponderCapture" ->
            c.onStartShouldSetResponderCapture
       [] callbackName = "onStartShouldSetResponder" ->
            c.onStartShouldSetResponder
       [] callbackName = "onMoveShouldSetResponderCapture" ->
            c.onMoveShouldSetResponderCapture
       [] callbackName = "onMoveShouldSetResponder" ->
            c.onMoveShouldSetResponder
       [] callbackName = "onScrollShouldSetResponderCapture" ->
            c.onScrollShouldSetResponderCapture
       [] callbackName = "onScrollShouldSetResponder" ->
            c.onScrollShouldSetResponder
       [] callbackName = "onSelectShouldSetResponderCapture" ->
            c.onSelectShouldSetResponderCapture
       [] OTHER -> c.onSelectShouldSetResponder

\* what the callbackName entry of a node's config is
callbackOf(node, callbackName) ==
  configEntry(getResponderConfig(node), callbackName)

(***************************************************************************)
(* findWantsResponder.  The result is the wanted responder (emptyResponder *)
(* for undefined) and the "shouldSet" callbacks invoked on the way.        *)
(***************************************************************************)
\* variant: isPropagationStopped() is never true
checked_NeverStopped(node, callbackName, returns, prunedResponderEventPath) ==
  [calls |-> IF returns # "absent" THEN <<<<callbackName, node>>>> ELSE <<>>,
   stopped |-> FALSE,
   result |-> IF returns = "true"
                THEN [node |-> node,
                      responderEventPath |-> prunedResponderEventPath]
                ELSE emptyResponder]

\* the call of shouldSetCallback, whose outcome is returns
checked(node, callbackName, returns, prunedResponderEventPath) ==
  [calls |-> IF returns # "absent" THEN <<<<callbackName, node>>>> ELSE <<>>,
   stopped |-> returns = "stop",
   result |-> IF returns = "true"
                THEN [node |-> node,
                      responderEventPath |-> prunedResponderEventPath]
                ELSE emptyResponder]

\* variant: returns the path it was given instead of the path from the node
check_WholePath(node, callbackName, responderEventPath) ==
  checked(node, callbackName, callbackOf(node, callbackName),
          responderEventPath)

check(node, callbackName, responderEventPath) ==
  checked(node, callbackName, callbackOf(node, callbackName),
          slice(responderEventPath, indexOf(responderEventPath, node)))

\* no node wants the responder
noResult == [calls |-> <<>>, stopped |-> FALSE, result |-> emptyResponder]

\* the walk rest, after the callbacks calls
after(calls, rest) == [rest EXCEPT !.calls = calls \o rest.calls]

\* the capture loop from index i down to 0; captureStep is one iteration,
\* c the result of its check
RECURSIVE captureWalk(_, _, _)
RECURSIVE captureStep(_, _, _, _)
captureStep(responderEventPath, i, name, c) ==
  IF c.result.node # Null \/ c.stopped THEN c
  ELSE after(c.calls, captureWalk(responderEventPath, i - 1, name))

captureWalk(responderEventPath, i, name) ==
  IF i < 0 THEN noResult
  ELSE captureStep(responderEventPath, i, name,
                   check(At(responderEventPath, i), name, responderEventPath))

\* the bubble loop from index i up; bubbleStep is one iteration, c the
\* result of its check
RECURSIVE bubbleWalk(_, _, _)
RECURSIVE bubbleStep(_, _, _, _)
bubbleStep(responderEventPath, i, name, c) ==
  IF c.result.node # Null \/ c.stopped THEN c
  ELSE after(c.calls, bubbleWalk(responderEventPath, i + 1, name))

bubbleWalk(responderEventPath, i, name) ==
  IF i >= Len(responderEventPath) THEN noResult
  ELSE bubbleStep(responderEventPath, i, name,
                  check(At(responderEventPath, i), name, responderEventPath))

\* the capture phase
capturePhase(responderEventPath, shouldSetCallbacks) ==
  captureWalk(responderEventPath, Len(responderEventPath) - 1,
              shouldSetCallbacks.capture)

\* variant: walks the bubble phase for every event type
bubblePhase_AlwaysBubbles(domEvent, responderEventPath, shouldSetCallbacks) ==
  bubbleWalk(responderEventPath, 0, shouldSetCallbacks.bubble)

\* the bubble phase; an event that does not bubble asks only its target
bubblePhase(domEvent, responderEventPath, shouldSetCallbacks) ==
  IF shouldSetCallbacks.bubbles
    THEN bubbleWalk(responderEventPath, 0, shouldSetCallbacks.bubble)
  ELSE IF /\ Len(responderEventPath) > 0
          /\ domEvent.target = At(responderEventPath, 0)
    THEN check(At(responderEventPath, 0), shouldSetCallbacks.bubble,
               responderEventPath)
  ELSE noResult

\* the second phase follows unless the first one, whose result is first,
\* found a node or was stopped
unlessFound(first, second) ==
  IF first.result.node # Null \/ first.stopped THEN first
  ELSE after(first.calls, second)

\* variant: walks the bubble phase before the capture phase
findWantsResponder_BubbleFirst(domEvent, responderEventPath) ==
  IF ~hasShouldSetCallbacks(domEvent.type) THEN noResult
  ELSE unlessFound(
         bubbleWalk(responderEventPath, 0,
                    shouldSetResponderEvents(domEvent.type).bubble),
         capturePhase(responderEventPath,
                      shouldSetResponderEvents(domEvent.type)))

findWantsResponder(domEvent, responderEventPath) ==
  IF ~hasShouldSetCallbacks(domEvent.type) THEN noResult
  ELSE unlessFound(
         capturePhase(responderEventPath,
                      shouldSetResponderEvents(domEvent.type)),
         bubblePhase(domEvent, responderEventPath,
                     shouldSetResponderEvents(domEvent.type)))

(***************************************************************************)
(* attemptTransfer: the responder after the attempt and the callbacks      *)
(* invoked.                                                                *)
(***************************************************************************)
call(defined, name, node) == IF defined THEN <<<<name, node>>>> ELSE <<>>

\* variant: grants the candidate without negotiating with the responder
attemptTransfer_NoNegotiation(current, wantsResponder) ==
  [responder |-> wantsResponder,
   calls |-> call(getResponderConfig(wantsResponder.node).onResponderGrant,
                  "onResponderGrant", wantsResponder.node)]

\* variant: grants the candidate before it terminates the responder
attemptTransfer_GrantFirst(current, wantsResponder) ==
  LET currentNode == current.node
      node == wantsResponder.node
      cfg == getResponderConfig(node)
      granted == call(cfg.onResponderGrant, "onResponderGrant", node)
  IN IF currentNode = Null
       THEN [responder |-> wantsResponder, calls |-> granted]
       ELSE
         LET currentConfig == getResponderConfig(currentNode)
             request == currentConfig.onResponderTerminationRequest
             asked == call(request # "absent",
                           "onResponderTerminationRequest", currentNode)
         IN IF request # "false"
              THEN [responder |-> wantsResponder,
                    calls |-> asked \o granted
                      \o call(currentConfig.onResponderTerminate,
                              "onResponderTerminate", currentNode)]
              ELSE [responder |-> current,
                    calls |-> asked
                      \o call(cfg.onResponderReject, "onResponderReject", node)]

attemptTransfer(current, wantsResponder) ==
  LET currentNode == current.node
      node == wantsResponder.node
      cfg == getResponderConfig(node)
  IN IF currentNode = Null
       THEN [responder |-> wantsResponder,
             calls |-> call(cfg.onResponderGrant, "onResponderGrant", node)]
       ELSE
         LET currentConfig == getResponderConfig(currentNode)
             request == currentConfig.onResponderTerminationRequest
             allowTransfer == request # "false"
             asked == call(request # "absent",
                           "onResponderTerminationRequest", currentNode)
         IN IF allowTransfer
              THEN [responder |-> wantsResponder,
                    calls |-> asked
                      \o call(currentConfig.onResponderTerminate,
                              "onResponderTerminate", currentNode)
                      \o call(cfg.onResponderGrant, "onResponderGrant", node)]
              ELSE [responder |-> current,
                    calls |-> asked
                      \o call(cfg.onResponderReject, "onResponderReject", node)]

(***************************************************************************)
(* eventListener: the responder and touch count it leaves and the          *)
(* callbacks it invokes, for one native event.                             *)
(***************************************************************************)
\* variant: drops only the mousemove without a mousedown
isIgnored_EmulatedKept(domEvent) ==
  domEvent.type = MOUSE_MOVE /\ trackedTouchCount < 1

\* the browser-emulated mouse events and the mousemove without a mousedown
isIgnored(domEvent) ==
  \/ /\ domEvent.type \in {MOUSE_DOWN, MOUSE_MOVE, MOUSE_UP}
     /\ domEvent.activeModality # "mouse"
  \/ domEvent.type = MOUSE_MOVE /\ trackedTouchCount < 1

\* variant: a mouse event that ends a gesture keeps the touch count
recordTouchCount_MouseEndKept(domEvent, isStartEvent, isMoveEvent, isEndEvent) ==
  IF isStartEvent \/ isMoveEvent \/ isEndEvent
    THEN IF hasTouchList(domEvent) THEN Len(domEvent.touches)
         ELSE IF isStartEvent THEN 1
         ELSE trackedTouchCount
    ELSE trackedTouchCount

\* Record the state of active pointers
recordTouchCount(domEvent, isStartEvent, isMoveEvent, isEndEvent) ==
  IF isStartEvent \/ isMoveEvent \/ isEndEvent
    THEN IF hasTouchList(domEvent) THEN Len(domEvent.touches)
         ELSE IF isStartEvent THEN 1
         ELSE IF isEndEvent THEN 0
         ELSE trackedTouchCount
    ELSE trackedTouchCount

\* ResponderTouchHistoryStore.recordTouchTrack is called for the event
recordsTouchTrack(isStartEvent, isMoveEvent, isEndEvent) ==
  isStartEvent \/ isMoveEvent \/ isEndEvent

\* variant: keeps the responder in the negotiation path
pruneTo_KeepsResponder(responderEventPath, lowestCommonAncestor) ==
  IF indexOf(responderEventPath, lowestCommonAncestor) # -1
    THEN slice(responderEventPath,
               indexOf(responderEventPath, lowestCommonAncestor))
    ELSE NullPath

\* the event path from its lowest common ancestor with the responder's path,
\* without the responder itself
pruneTo(responderEventPath, lowestCommonAncestor) ==
  LET indexOfLowestCommonAncestor ==
        indexOf(responderEventPath, lowestCommonAncestor)
  IN IF indexOfLowestCommonAncestor # -1
       THEN slice(responderEventPath,
                  indexOfLowestCommonAncestor
                    + (IF lowestCommonAncestor = currentResponder.node
                         THEN 1 ELSE 0))
       ELSE NullPath

\* variant: negotiates along the whole event path
prunePath_WholePath(responderEventPath) == responderEventPath

\* prune the event path to the lowest common ancestor of the responder and
\* the target
prunePath(responderEventPath) ==
  LET currentResponderEventPath == currentResponder.responderEventPath
  IN IF currentResponderEventPath # NullPath
       THEN pruneTo(responderEventPath,
                    getLowestCommonAncestor(currentResponderEventPath,
                                            responderEventPath))
       ELSE responderEventPath

\* the transfer t attempted for the node that wants the responder
transferred(wants, t) ==
  [responder |-> t.responder, calls |-> wants.calls \o t.calls,
   wasNegotiated |-> TRUE, wants |-> wants.result.node]

\* wants is what findWantsResponder returned
negotiateWith(wants) ==
  IF wants.result.node # Null
    THEN transferred(wants, attemptTransfer(currentResponder, wants.result))
    ELSE [responder |-> currentResponder, calls |-> wants.calls,
          wasNegotiated |-> FALSE, wants |-> Null]

\* responderEventPath is the pruned path
negotiateAlong(domEvent, responderEventPath) ==
  IF responderEventPath # NullPath
    THEN negotiateWith(findWantsResponder(domEvent, responderEventPath))
    ELSE [responder |-> currentResponder, calls |-> <<>>,
          wasNegotiated |-> FALSE, wants |-> Null]

negotiate(domEvent, isStartEvent, isMoveEvent, count) ==
  IF isStartEvent \/ isMoveEvent \/ (isScroll(domEvent.type) /\ count > 0)
    THEN negotiateAlong(domEvent, prunePath(getResponderEventPath(domEvent)))
    ELSE [responder |-> currentResponder, calls |-> <<>>,
          wasNegotiated |-> FALSE, wants |-> Null]

isTerminateEvent(domEvent, node, count) ==
  LET eventType == domEvent.type
      eventTarget == domEvent.target
  IN \/ isCancelish(eventType)
     \/ eventType = CONTEXT_MENU
     \/ (eventType = BLUR /\ eventTarget = Window)
     \/ (eventType = BLUR /\ contains(eventTarget, node)
           /\ domEvent.relatedTarget # node)
     \/ (isScroll(eventType) /\ count = 0)
     \/ (isScroll(eventType) /\ contains(eventTarget, node)
           /\ eventTarget # node)
     \/ isSelect(eventType)

isReleaseEvent(domEvent, node, count) ==
  /\ isEndish(domEvent.type)
  /\ ~isTerminateEvent(domEvent, node, count)
  /\ ~hasTargetTouches(node, domEvent)

\* variant: asks the responder although the negotiation has asked it
terminate_AsksAgain(domEvent, node, count, wasNegotiated) ==
  LET cfg == getResponderConfig(node)
      avoidable == domEvent.type \in {CONTEXT_MENU, SCROLL, SELECT}
      shouldTerminate ==
        ~avoidable \/ cfg.onResponderTerminationRequest # "false"
  IN [calls |-> call(avoidable /\ cfg.onResponderTerminationRequest # "absent",
                     "onResponderTerminationRequest", node)
                  \o call(shouldTerminate /\ cfg.onResponderTerminate,
                          "onResponderTerminate", node),
      terminated |-> shouldTerminate]

\* variant: terminates without asking the responder
terminate_Unasked(domEvent, node, count, wasNegotiated) ==
  [calls |-> call(getResponderConfig(node).onResponderTerminate,
                  "onResponderTerminate", node),
   terminated |-> TRUE]

\* the termination step of an event that is a terminate event
terminate(domEvent, node, count, wasNegotiated) ==
  LET cfg == getResponderConfig(node)
      eventType == domEvent.type
      avoidable == eventType = CONTEXT_MENU \/ eventType = SCROLL
                     \/ eventType = SELECT
      asks == avoidable /\ ~wasNegotiated
                /\ cfg.onResponderTerminationRequest # "absent"
      shouldTerminate ==
        IF avoidable
          THEN IF wasNegotiated THEN FALSE
               ELSE cfg.onResponderTerminationRequest # "false"
          ELSE TRUE
  IN [calls |-> call(asks, "onResponderTerminationRequest", node)
                  \o call(shouldTerminate /\ cfg.onResponderTerminate,
                          "onResponderTerminate", node),
      terminated |-> shouldTerminate]

\* invoke the callbacks of the responder for the lifecycle of the gesture
lifecycle(domEvent, responder, count, isStartEvent, isMoveEvent, wasNegotiated) ==
  LET node == responder.node
      cfg == getResponderConfig(node)
  IN IF node = Null
       THEN [responder |-> responder, count |-> count, calls |-> <<>>]
     ELSE IF isStartEvent
       THEN [responder |-> responder, count |-> count,
             calls |-> call(cfg.onResponderStart, "onResponderStart", node)]
     ELSE IF isMoveEvent
       THEN [responder |-> responder, count |-> count,
             calls |-> call(cfg.onResponderMove, "onResponderMove", node)]
     ELSE
       LET isEndEvent == isEndish(domEvent.type)
           isTerminate == isTerminateEvent(domEvent, node, count)
           isRelease == isReleaseEvent(domEvent, node, count)
           term == IF isTerminate
                     THEN terminate(domEvent, node, count, wasNegotiated)
                     ELSE [calls |-> <<>>, terminated |-> FALSE]
       IN [responder |-> IF isRelease \/ term.terminated
                           THEN emptyResponder ELSE responder,
           count |-> IF term.terminated THEN 0 ELSE count,
           calls |-> call(isEndEvent /\ cfg.onResponderEnd,
                          "onResponderEnd", node)
                  \o call(isRelease /\ cfg.onResponderRelease,
                          "onResponderRelease", node)
                  \o term.calls]

\* what a call leaves behind: n of the negotiation, l of the lifecycle
\* getResponderNode() as each of calls would read it while node is the
\* current responder
seenBy(calls, node) == [i \in 1..Len(calls) |-> node]

\* The negotiation changes the current responder after its last callback
\* (changeCurrentResponder ends both branches of attemptTransfer), and so
\* do release and termination: the callbacks of the negotiation run under
\* the responder of before the call, those of the lifecycle under the
\* responder the negotiation left.
outcome(n, l) ==
  [responder |-> l.responder, count |-> l.count,
   calls |-> n.calls \o l.calls, wants |-> n.wants,
   seen |-> seenBy(n.calls, currentResponder.node)
              \o seenBy(l.calls, n.responder.node)]

\* the lifecycle callbacks after the negotiation n
afterNegotiation(domEvent, count, isStartEvent, isMoveEvent, n) ==
  outcome(n, lifecycle(domEvent, n.responder, count, isStartEvent,
                       isMoveEvent, n.wasNegotiated))

\* the responder system logic, count being the recorded touch count
respond(domEvent, count, isStartEvent, isMoveEvent) ==
  afterNegotiation(domEvent, count, isStartEvent, isMoveEvent,
                   negotiate(domEvent, isStartEvent, isMoveEvent, count))

eventListener(domEvent) ==
  IF isIgnored(domEvent)
    THEN [responder |-> currentResponder, count |-> trackedTouchCount,
          calls |-> <<>>, wants |-> Null, seen |-> <<>>, recorded |-> FALSE,
          counted |-> trackedTouchCount]
  ELSE
    LET eventType == domEvent.type
        isStartEvent == isStartish(eventType) /\ isPrimaryPointerDown(domEvent)
        isMoveEvent == isMoveish(eventType)
        isEndEvent == isEndish(eventType)
    IN respond(domEvent,
               recordTouchCount(domEvent, isStartEvent, isMoveEvent,
                                isEndEvent),
               isStartEvent, isMoveEvent)
         @@ [recorded |-> recordsTouchTrack(isStartEvent, isMoveEvent,
                                            isEndEvent),
             counted |-> recordTouchCount(domEvent, isStartEvent, isMoveEvent,
                                          isEndEvent)]

(***************************************************************************)
(* The native events the browser delivers and the calls of the hosts.      *)
(***************************************************************************)
ConfigSet == {"null", "bubble", "capture", "move"}

NoEvent(name) ==
  [type |-> name, target |-> Null, touches |-> <<>>, button |-> 0,
   buttons |-> 0, altKey |-> FALSE, ctrlKey |-> FALSE,
   relatedTarget |-> Null, activeModality |-> "keyboard"]

Event(type, target) == [NoEvent(type) EXCEPT !.target = target]

TouchEvent(type, target, list) ==
  [NoEvent(type) EXCEPT !.target = target, !.touches = list,
                        !.activeModality = "touch"]

RECURSIVE insertSorted(_, _)
insertSorted(list, t) ==
  IF list = <<>> \/ t <= Head(list) THEN <<t>> \o list
  ELSE <<Head(list)>> \o insertSorted(Tail(list), t)

removeAt(list, i) == SubSeq(list, 1, i - 1) \o SubSeq(list, i + 1, Len(list))

NoGesture ==
  /\ gnode = Null
  /\ pointer = "touch"
  /\ phase = "idle"
  /\ moves = 0
  /\ trace = <<>>

(***************************************************************************)
(* attachListeners.  A wiring is one addEvent(target, type, eventListener,  *)
(* options) call: its target ("window" or "document"), its type and        *)
(* whether it asks for the capture phase.                                  *)
(***************************************************************************)
Wiring(target, type, capture) ==
  [target |-> target, type |-> type, capture |-> capture]

EventTypes ==
  { BLUR, CONTEXT_MENU, MOUSE_DOWN, MOUSE_MOVE, MOUSE_UP, MOUSE_CANCEL,
    TOUCH_START, TOUCH_MOVE, TOUCH_END, TOUCH_CANCEL, SCROLL, SELECT }

Wirings ==
  { Wiring(target, type, capture) :
      target \in {"window", "document"}, type \in EventTypes,
      capture \in BOOLEAN }

\* the addEvent calls of attachListeners
attachedEvents ==
  { Wiring("window", BLUR, FALSE),
    Wiring("document", MOUSE_DOWN, FALSE),
    Wiring("document", MOUSE_MOVE, FALSE),
    Wiring("document", MOUSE_UP, FALSE),
    Wiring("document", MOUSE_CANCEL, FALSE),
    Wiring("document", TOUCH_START, FALSE),
    Wiring("document", TOUCH_MOVE, FALSE),
    Wiring("document", TOUCH_END, FALSE),
    Wiring("document", TOUCH_CANCEL, FALSE),
    Wiring("document", CONTEXT_MENU, FALSE),
    Wiring("document", SELECT, FALSE),
    Wiring("document", BLUR, TRUE),
    Wiring("document", SCROLL, TRUE) }

\* the module runs in a browser
supportsDOM == TRUE

\* variant: wires the events on every call
attachListeners_Unguarded ==
  [active |-> TRUE,
   listeners |-> [w \in Wirings |->
                    IF w \in attachedEvents
                      THEN listeners[w] + 1 ELSE listeners[w]]]

\* attachListeners(): the flag and the wirings it leaves
attachListeners ==
  IF supportsDOM /\ ~active
    THEN [active |-> TRUE,
          listeners |-> [w \in Wirings |->
                           IF w \in attachedEvents
                             THEN listeners[w] + 1 ELSE listeners[w]]]
    ELSE [active |-> active, listeners |-> listeners]

NoWiring ==
  /\ active = FALSE
  /\ listeners = [w \in Wirings |-> 0]
  /\ attachCalls = 0
  /\ processed = 0

(***************************************************************************)
(* usePress, with onLongPress and onPress defined and the default delay.   *)
(* longPressTimeout is "null", the handle of a "pending" timer or the      *)
(* handle of a timer that has "fired".  A position is <<pageX, pageY>>.    *)
(* timers is no field of the state of the hook: it counts the long-press   *)
(* timers of the target that window holds, set and neither run nor         *)
(* cleared.                                                                *)
(***************************************************************************)
MOVE_THRESHOLD_PX == 10
DEFAULT_LONG_PRESS_DELAY_MS == 500

longPressDelay == DEFAULT_LONG_PRESS_DELAY_MS

\* Math.hypot(deltaX, deltaY) > MOVE_THRESHOLD_PX
beyondThreshold(deltaX, deltaY) ==
  deltaX * deltaX + deltaY * deltaY > MOVE_THRESHOLD_PX * MOVE_THRESHOLD_PX

initialPressState ==
  [active |-> FALSE, initialX |-> Null, initialY |-> Null,
   isLongPress |-> FALSE, longPressTimeout |-> "null", timers |-> 0]

\* the deltas of the handlers; coordinates are never 0 (Null) in the model
deltaOf(initial, page) == IF initial # Null THEN initial - page ELSE 0

\* clearTimeout(state.longPressTimeout): a no-op unless the handle is of a
\* timer that is pending
clearTimeout(state) ==
  IF state.longPressTimeout = "pending"
    THEN [state EXCEPT !.timers = @ - 1]
    ELSE state

pressGrant(state, pos) ==
  [state EXCEPT !.active = TRUE, !.isLongPress = FALSE,
                !.initialX = pos[1], !.initialY = pos[2],
                !.longPressTimeout = "pending", !.timers = @ + 1]

pressMove(state, pos) ==
  IF beyondThreshold(deltaOf(state.initialX, pos[1]),
                     deltaOf(state.initialY, pos[2]))
    THEN [clearTimeout(state) EXCEPT !.longPressTimeout = "null"]
    ELSE state

\* variant: forgets the long press as termination does
pressRelease_ForgetsLongPress(state) ==
  [clearTimeout(state) EXCEPT !.active = FALSE, !.isLongPress = FALSE,
                              !.longPressTimeout = "null"]

\* variant: drops the handle of the timer and does not clear it
pressRelease_KeepsTimer(state) ==
  [state EXCEPT !.active = FALSE, !.longPressTimeout = "null"]

pressRelease(state) ==
  [clearTimeout(state) EXCEPT !.active = FALSE, !.longPressTimeout = "null"]

pressTerminate(state) ==
  [clearTimeout(state) EXCEPT !.active = FALSE, !.isLongPress = FALSE,
                              !.longPressTimeout = "null"]

\* the callback of the long-press timer
pressTimeout(state) ==
  IF state.active THEN [state EXCEPT !.isLongPress = TRUE] ELSE state

\* the timer calls onLongPress
callsLongPress(state) == state.active

\* the click listener calls onPress (target and hook enabled)
callsPress(state, pos, hasSelection, altKey) ==
  LET didSelectText ==
        /\ beyondThreshold(deltaOf(state.initialX, pos[1]),
                           deltaOf(state.initialY, pos[2]))
        /\ hasSelection
  IN ~(state.isLongPress \/ didSelectText) /\ altKey = FALSE

\* the responder callbacks of usePress, applied to the calls of one event
RECURSIVE pressHandle(_, _, _, _)
pressHandle(state, calls, node, pos) ==
  IF calls = <<>> THEN state
  ELSE pressHandle(
         IF Head(calls) = <<"onResponderGrant", node>>
           THEN pressGrant(state, pos)
         ELSE IF Head(calls) = <<"onResponderMove", node>>
           THEN pressMove(state, pos)
         ELSE IF Head(calls) = <<"onResponderRelease", node>>
           THEN pressRelease(state)
         ELSE IF Head(calls) = <<"onResponderTerminate", node>>
           THEN pressTerminate(state)
         ELSE state,
         Tail(calls), node, pos)

NoPress ==
  /\ press = initialPressState
  /\ pressPhase = "up"
  /\ elapsed = 0
  /\ origin = <<0, 0>>
  /\ strayed = FALSE
  /\ held = FALSE
  /\ longPresses = 0
  /\ presses = 0

(***************************************************************************)
(* The touch history store and its math, on the X axis.  A touch track     *)
(* holds the current and the previous position and the time of its last    *)
(* update; a start inserts the touches that started, with previous =       *)
(* current, a move updates the touches that moved, an end removes the      *)
(* touches that ended.                                                     *)
(***************************************************************************)
PanTouches == {"A", "B"}

NoTrack == [touchActive |-> FALSE, currentPageX |-> 0, previousPageX |-> 0,
            currentTimeStamp |-> 0]

initialTouchHistory ==
  [touchBank |-> [id \in PanTouches |-> NoTrack],
   numberActiveTouches |-> 0, mostRecentTimeStamp |-> 0]

activeTouches(bank) == { id \in PanTouches : bank[id].touchActive }

\* the store after bank has been written at timeStamp
recorded(bank, timeStamp) ==
  [touchBank |-> bank,
   numberActiveTouches |-> Cardinality(activeTouches(bank)),
   mostRecentTimeStamp |-> timeStamp]

recordTouchStart(history, id, pageX, timeStamp) ==
  recorded([history.touchBank EXCEPT
              ![id] = [touchActive |-> TRUE, currentPageX |-> pageX,
                       previousPageX |-> pageX,
                       currentTimeStamp |-> timeStamp]],
           timeStamp)

recordTouchMove(history, id, pageX, timeStamp) ==
  recorded([history.touchBank EXCEPT
              ![id] = [touchActive |-> TRUE, currentPageX |-> pageX,
                       previousPageX |-> history.touchBank[id].currentPageX,
                       currentTimeStamp |-> timeStamp]],
           timeStamp)

recordTouchEnd(history, id, timeStamp) ==
  recorded([history.touchBank EXCEPT ![id] = NoTrack], timeStamp)

RECURSIVE sumOver(_, _, _)
sumOver(bank, ids, ofCurrent) ==
  IF ids = {} THEN 0
  ELSE LET id == CHOOSE i \in ids : TRUE
       IN (IF ofCurrent THEN bank[id].currentPageX
                        ELSE bank[id].previousPageX)
            + sumOver(bank, ids \ {id}, ofCurrent)

\* the mean over the touches ids; the coordinates of the model keep it whole
mean(bank, ids, ofCurrent) ==
  IF ids = {} THEN noCentroid
  ELSE sumOver(bank, ids, ofCurrent) \div Cardinality(ids)

\* the active touches last updated after touchesChangedAfter
changedAfter(history, touchesChangedAfter) ==
  { id \in activeTouches(history.touchBank) :
      history.touchBank[id].currentTimeStamp > touchesChangedAfter }

currentCentroidXOfTouchesChangedAfter(history, touchesChangedAfter) ==
  mean(history.touchBank, changedAfter(history, touchesChangedAfter), TRUE)

previousCentroidXOfTouchesChangedAfter(history, touchesChangedAfter) ==
  mean(history.touchBank, changedAfter(history, touchesChangedAfter), FALSE)

currentCentroidX(history) ==
  mean(history.touchBank, activeTouches(history.touchBank), TRUE)

(***************************************************************************)
(* usePan, with onStartShouldSetPan true, on the X axis.  A velocity is    *)
(* kept as the pair <<distance, time>> the code divides.                   *)
(***************************************************************************)
initialGestureState ==
  [x |-> 0, initialX |-> 0, deltaX |-> 0, velocityX |-> <<0, 1>>,
   numberActiveTouches |-> 0, accountsForMovesUpTo |-> 0]

\* variant: keeps the distance the gesture has accumulated
initializeGestureState_KeepsDelta(g) ==
  [initialGestureState EXCEPT !.deltaX = g.deltaX]

initializeGestureState(g) == initialGestureState

\* the gesture state after a move that shifted the centroid from prevX to x
movedTo(g, history, prevX, x, movedAfter) ==
  [g EXCEPT !.deltaX = g.deltaX + (x - prevX),
            !.numberActiveTouches = history.numberActiveTouches,
            !.velocityX = <<x - prevX, history.mostRecentTimeStamp - movedAfter>>,
            !.x = x,
            !.accountsForMovesUpTo = history.mostRecentTimeStamp]

\* variant: leaves the time up to which the moves are accounted for
updateGestureStateOnMove_NoAdvance(g, history) ==
  [movedTo(g, history,
           previousCentroidXOfTouchesChangedAfter(history,
                                                  g.accountsForMovesUpTo),
           currentCentroidXOfTouchesChangedAfter(history,
                                                 g.accountsForMovesUpTo),
           g.accountsForMovesUpTo)
     EXCEPT !.accountsForMovesUpTo = g.accountsForMovesUpTo]

\* variant: follows the touches of the last event only
updateGestureStateOnMove_LastEvent(g, history) ==
  movedTo(g, history,
          previousCentroidXOfTouchesChangedAfter(
            history, history.mostRecentTimeStamp - 1),
          currentCentroidXOfTouchesChangedAfter(
            history, history.mostRecentTimeStamp - 1),
          g.accountsForMovesUpTo)

updateGestureStateOnMove(g, history) ==
  movedTo(g, history,
          previousCentroidXOfTouchesChangedAfter(history,
                                                 g.accountsForMovesUpTo),
          currentCentroidXOfTouchesChangedAfter(history,
                                                g.accountsForMovesUpTo),
          g.accountsForMovesUpTo)

\* the delay of setInteractionTimeout
INTERACTION_TIMEOUT_MS == 250

\* timeout is "null" or the handle of a timer that is "pending", was
\* "cleared" or has "fired"; timers and due are no fields of the state of the
\* hook: the interaction timers of the target that window holds, set and
\* neither run nor cleared, and the time the last one set is due
initialInteractionState ==
  [shouldCancelClick |-> FALSE, timeout |-> "null", timers |-> 0, due |-> 0]

\* variant: leaves the timer of the gesture before
clearInteractionTimeout_Keeps(state) == state

\* clearTimeout(interactionState.timeout): a no-op unless the handle is of a
\* timer that is pending
clearInteractionTimeout(state) ==
  IF state.timeout = "pending"
    THEN [state EXCEPT !.timeout = "cleared", !.timers = @ - 1]
    ELSE state

setInteractionTimeout(state, timeStamp) ==
  [state EXCEPT !.timeout = "pending", !.timers = @ + 1,
                !.due = timeStamp + INTERACTION_TIMEOUT_MS]

\* the callback of the timer of setInteractionTimeout
interactionTimeout(state) ==
  [state EXCEPT !.shouldCancelClick = FALSE]

\* the click capture listener of the target stops the click
cancelsClick(state) == state.shouldCancelClick = TRUE

\* one responder callback of usePan; p is <<gestureState, interactionState>>
\* and touchCount the length of nativeEvent.touches
panCallback(p, name, history, touchCount) ==
  CASE name = "onStartShouldSetResponderCapture" ->
         <<[(IF touchCount = 1 THEN initializeGestureState(p[1]) ELSE p[1])
              EXCEPT !.numberActiveTouches = history.numberActiveTouches],
           p[2]>>
    [] name = "onMoveShouldSetResponderCapture" ->
         <<updateGestureStateOnMove(p[1], history), p[2]>>
    [] name = "onResponderGrant" ->
         <<[p[1] EXCEPT !.initialX = currentCentroidX(history), !.deltaX = 0],
           [(IF p[2].timeout # "null" THEN clearInteractionTimeout(p[2])
                                      ELSE p[2])
              EXCEPT !.shouldCancelClick = TRUE]>>
    [] name \in {"onResponderStart", "onResponderEnd"} ->
         <<[p[1] EXCEPT !.numberActiveTouches = history.numberActiveTouches],
           p[2]>>
    [] name = "onResponderMove" ->
         <<updateGestureStateOnMove(p[1], history), p[2]>>
    [] name \in {"onResponderRelease", "onResponderTerminate"} ->
         <<initializeGestureState(p[1]),
           setInteractionTimeout(p[2], history.mostRecentTimeStamp)>>
    [] OTHER -> p

\* the responder callbacks of usePan, applied to the calls of one event
RECURSIVE panHandle(_, _, _, _, _)
panHandle(p, calls, node, history, touchCount) ==
  IF calls = <<>> THEN p
  ELSE panHandle(IF Head(calls)[2] = node
                   THEN panCallback(p, Head(calls)[1], history, touchCount)
                   ELSE p,
                 Tail(calls), node, history, touchCount)

NoMove == [touch |-> "none", by |-> 0, first |-> FALSE]

NoPan ==
  /\ gestureState = initialGestureState
  /\ interactionState = initialInteractionState
  /\ touchHistory = initialTouchHistory
  /\ noCentroid = 0
  /\ now = 0
  /\ lastMove = NoMove

(***************************************************************************)
(* useHover, enabled, on MaxDepth nested regions.  h is [hovered, calls]:  *)
(* what the callbacks of the regions have been told.  The lock and unlock  *)
(* events bubble from their target through the regions around it.          *)
(***************************************************************************)
MaxDepth == 3
MaxHoverCalls == 5

Regions == 1..MaxDepth

lockEventType == "react-gui:hover:lock"
unlockEventType == "react-gui:hover:unlock"

hoverStart(h, target) ==
  [hovered |-> [h.hovered EXCEPT ![target] = TRUE],
   calls |-> [h.calls EXCEPT ![target] = Append(@, "onHoverStart")]]

hoverEnd(h, target) ==
  [hovered |-> [h.hovered EXCEPT ![target] = FALSE],
   calls |-> [h.calls EXCEPT ![target] = Append(@, "onHoverEnd")]]

lockListener(h, target, lockTarget) ==
  IF lockTarget # target THEN hoverEnd(h, target) ELSE h

unlockListener(h, target, lockTarget) ==
  IF lockTarget # target THEN hoverStart(h, target) ELSE h

\* the listeners of region r for an event of type that bubbles from target
heard(h, r, type, target) ==
  IF ~listening[r] THEN h
  ELSE IF type = lockEventType THEN lockListener(h, r, target)
  ELSE unlockListener(h, r, target)

\* the event at region r and then at the regions around it
RECURSIVE bubbleFrom(_, _, _, _)
bubbleFrom(h, r, type, target) ==
  IF r = 0 THEN h
  ELSE bubbleFrom(heard(h, r, type, target), r - 1, type, target)

dispatchCustomEvent(h, target, type) == bubbleFrom(h, target, type, target)

\* e is the pointerType of the event
getPointerType(e) == e

enterListener(h, target, e) ==
  IF getPointerType(e) # "touch"
    THEN hoverStart(IF hoverBubbles[target] = FALSE
                      THEN dispatchCustomEvent(h, target, lockEventType)
                      ELSE h,
                    target)
    ELSE h

leaveListener(h, target, e) ==
  IF getPointerType(e) # "touch"
    THEN hoverEnd(IF hoverBubbles[target] = FALSE
                    THEN dispatchCustomEvent(h, target, unlockEventType)
                    ELSE h,
                  target)
    ELSE h

NoHover ==
  /\ hoverBubbles = [r \in Regions |-> FALSE]
  /\ hoverAt = 0
  /\ pointerType = "mouse"
  /\ hovered = [r \in Regions |-> FALSE]
  /\ listening = [r \in Regions |-> FALSE]
  /\ hoverCalls = [r \in Regions |-> <<>>]

(***************************************************************************)
(* useFocusWithin.  A focus event is heard by the listeners of the target  *)
(* when it comes from the target or from within it; FocusPlaces are the    *)
(* places the focus can be at or go to: "none", two elements within the    *)
(* target and one outside of it.                                           *)
(***************************************************************************)
MaxFocusCalls == 4

FocusPlaces == {"none", "in1", "in2", "out"}

\* target.contains(e.relatedTarget)
focusContains(relatedTarget) == relatedTarget \in {"in1", "in2"}

\* f is [ref, calls]: focusWithinRef.current and the calls made
focusInListener(f, disabled) ==
  IF disabled THEN f
  ELSE IF f.ref = FALSE
    THEN [ref |-> TRUE, calls |-> Append(f.calls, TRUE)]
    ELSE f

\* variant: tells the change whatever the state is
focusOutListener_NoState(f, disabled, isElement, relatedTarget) ==
  IF disabled THEN f
  ELSE IF isElement /\ ~focusContains(relatedTarget)
    THEN [ref |-> FALSE, calls |-> Append(f.calls, FALSE)]
    ELSE f

focusOutListener(f, disabled, isElement, relatedTarget) ==
  IF disabled THEN f
  ELSE IF f.ref = TRUE /\ isElement
    THEN IF ~focusContains(relatedTarget)
           THEN [ref |-> FALSE, calls |-> Append(f.calls, FALSE)]
           ELSE f
    ELSE f

NoFocusEvent ==
  [type |-> "none", relatedTarget |-> "none", called |-> 0, within |-> FALSE]

NoFocus ==
  /\ focusWithinRef = FALSE
  /\ focusDisabled = FALSE
  /\ focusIsElement = TRUE
  /\ focusCalls = <<>>
  /\ lastFocus = NoFocusEvent

KEYBOARD == "keyboard"
MOUSE == "mouse"
TOUCH == "touch"

\* the module state of the modality tracker when it is loaded
initialTracker ==
  [activeModality |-> KEYBOARD, modality |-> KEYBOARD,
   previousModality |-> "null", previousActiveModality |-> "null",
   isEmulatingMouseEvents |-> FALSE]

NoModality ==
  /\ tracker = initialTracker
  /\ pointerEvents = FALSE
  /\ blurs = 0
  /\ beforeBlur = <<KEYBOARD, KEYBOARD>>
  /\ lastWindow = "none"
  /\ grantedBy = "none"

NoOutside ==
  /\ clickListeners = <<>>
  /\ cleanupRef = "undefined"
  /\ outsideTarget = Null
  /\ outsideDisabled = FALSE
  /\ outsideCalls = 0
  /\ lastClick = "none"

NoHooks == NoFocus /\ NoModality /\ pressCalls = <<>> /\ NoOutside

NoComponents == NoWiring /\ NoPress /\ NoPan /\ NoHover /\ NoHooks

NoLca == lcaA = <<>> /\ lcaB = <<>> /\ lcaOut = Null /\ lcaDone = FALSE

Init ==
  /\ parent \in Trees
  /\ config = [n \in Nodes |-> "null"]
  /\ currentResponder = emptyResponder
  /\ trackedTouchCount = 0
  /\ touches = <<>>
  /\ log = <<>>
  /\ lastEvent = NoEvent("none")
  /\ prevResponder = emptyResponder
  /\ prevCount = 0
  /\ wanted = Null
  /\ seen = <<>>
  /\ tracked = FALSE
  /\ counted = 0
  /\ NoGesture
  /\ NoLca
  /\ NoComponents

\* nothing is recorded of an earlier call
Cleared == lastEvent.type = "none"

\* the engine processes a native event
\* r is what eventListener did with domEvent
Recorded(domEvent, r) ==
  /\ currentResponder' = r.responder
  /\ trackedTouchCount' = r.count
  /\ log' = r.calls
  /\ lastEvent' = domEvent
  /\ prevResponder' = currentResponder
  /\ prevCount' = trackedTouchCount
  /\ wanted' = r.wants
  /\ seen' = r.seen
  /\ tracked' = r.recorded
  /\ counted' = r.counted
  /\ UNCHANGED <<parent, config, gestureVars, lcaVars>>

Listened(domEvent, r) ==
  /\ Recorded(domEvent, r)
  /\ UNCHANGED componentVars

Dispatch(domEvent) ==
  /\ Cleared
  /\ Listened(domEvent, eventListener(domEvent))

TouchStart ==
  \E t \in Nodes :
    /\ Len(touches) < MaxTouches
    /\ touches' = insertSorted(touches, t)
    /\ Dispatch(TouchEvent(TOUCH_START, t, touches'))

TouchMove ==
  \E i \in 1..Len(touches) :
    /\ UNCHANGED touches
    /\ Dispatch(TouchEvent(TOUCH_MOVE, touches[i], touches))

TouchEnd ==
  \E i \in 1..Len(touches) :
    /\ touches' = removeAt(touches, i)
    /\ Dispatch(TouchEvent(TOUCH_END, touches[i], touches'))

TouchCancel ==
  \E i \in 1..Len(touches) :
    /\ touches' = removeAt(touches, i)
    /\ Dispatch(TouchEvent(TOUCH_CANCEL, touches[i], touches'))

MouseDown ==
  \E t \in Nodes, m \in {"mouse", "touch"} :
    /\ UNCHANGED touches
    /\ Dispatch([Event(MOUSE_DOWN, t) EXCEPT !.buttons = 1,
                                             !.activeModality = m])

MouseMove ==
  \E t \in Nodes, m \in {"mouse", "touch"} :
    /\ UNCHANGED touches
    /\ Dispatch([Event(MOUSE_MOVE, t) EXCEPT !.buttons = 1,
                                             !.activeModality = m])

MouseUp ==
  \E t \in Nodes, m \in {"mouse", "touch"} :
    /\ UNCHANGED touches
    /\ Dispatch([Event(MOUSE_UP, t) EXCEPT !.activeModality = m])

DragStart ==
  \E t \in Nodes :
    /\ UNCHANGED touches
    /\ Dispatch([Event(MOUSE_CANCEL, t) EXCEPT !.activeModality = "mouse"])

ContextMenu ==
  \E t \in Nodes : UNCHANGED touches /\ Dispatch(Event(CONTEXT_MENU, t))

Scroll ==
  \E t \in Nodes : UNCHANGED touches /\ Dispatch(Event(SCROLL, t))

Select ==
  \E t \in Nodes : UNCHANGED touches /\ Dispatch(Event(SELECT, t))

Blur ==
  \E t \in Nodes \cup {Window}, r \in {Null, currentResponder.node} :
    /\ t = Window => r = Null
    /\ UNCHANGED touches
    /\ Dispatch([Event(BLUR, t) EXCEPT !.relatedTarget = r])

\* setConfig(node, config)
SetConfig ==
  \E n \in Nodes, c \in ConfigSet :
    /\ Cleared
    /\ config[n] # c
    /\ config' = [config EXCEPT ![n] = c]
    /\ UNCHANGED <<parent, currentResponder, trackedTouchCount, touches,
                   historyVars, gestureVars, lcaVars, componentVars>>

\* variant: forgets to empty the current responder
terminateResponder_KeepsResponder ==
  [responder |-> currentResponder, count |-> 0,
   calls |-> IF currentResponder.node # Null
               THEN call(getResponderConfig(currentResponder.node)
                           .onResponderTerminate,
                         "onResponderTerminate", currentResponder.node)
               ELSE <<>>]

\* variant: asks the responder before it terminates it
terminateResponder_Asks ==
  LET node == currentResponder.node
      cfg == getResponderConfig(node)
      refused == cfg.onResponderTerminationRequest = "false"
  IN [responder |-> IF node # Null /\ ~refused
                      THEN emptyResponder ELSE currentResponder,
      count |-> 0,
      calls |-> IF node # Null
                  THEN call(cfg.onResponderTerminationRequest # "absent",
                            "onResponderTerminationRequest", node)
                       \o call(~refused /\ cfg.onResponderTerminate,
                               "onResponderTerminate", node)
                  ELSE <<>>]

\* terminateResponder(): the responder and touch count it leaves and the
\* callbacks it invokes
terminateResponder ==
  LET node == currentResponder.node
  IN [responder |-> IF node # Null THEN emptyResponder ELSE currentResponder,
      count |-> 0,
      calls |-> IF node # Null
                  THEN call(getResponderConfig(node).onResponderTerminate,
                            "onResponderTerminate", node)
                  ELSE <<>>]

\* a host calls terminateResponder()
TerminateResponder ==
  /\ Cleared
  /\ currentResponder' = terminateResponder.responder
  /\ trackedTouchCount' = terminateResponder.count
  /\ log' = terminateResponder.calls
  /\ lastEvent' = NoEvent("terminateResponder")
  /\ prevResponder' = currentResponder
  /\ prevCount' = trackedTouchCount
  /\ wanted' = Null
  /\ seen' = seenBy(log', currentResponder.node)
  /\ tracked' = FALSE
  /\ counted' = trackedTouchCount
  /\ UNCHANGED <<parent, config, touches, gestureVars, lcaVars,
                 componentVars>>

\* the observer forgets the last call before it watches the next one
ClearLog ==
  /\ ~Cleared
  /\ log' = <<>>
  /\ lastEvent' = NoEvent("none")
  /\ prevResponder' = emptyResponder
  /\ prevCount' = 0
  /\ wanted' = Null
  /\ seen' = <<>>
  /\ tracked' = FALSE
  /\ counted' = 0
  /\ UNCHANGED <<engineVars, gestureVars, lcaVars, componentVars>>

Next ==
  \/ TouchStart \/ TouchMove \/ TouchEnd \/ TouchCancel
  \/ MouseDown \/ MouseMove \/ MouseUp \/ DragStart
  \/ ContextMenu \/ Scroll \/ Select \/ Blur
  \/ SetConfig \/ TerminateResponder \/ ClearLog

Spec == Init /\ [][Next]_vars

(***************************************************************************)
(* One gesture of a single pointer: a start on gnode, some moves, an end.  *)
(* gnode's start predicate returns true and no other node has a predicate  *)
(* that returns true.                                                      *)
(***************************************************************************)
GestureConfigs ==
  { c \in [Nodes -> {"null", "empty", "refuse", "bubble", "capture"}] :
      \A n \in Nodes : c[n] \in {"bubble", "capture"} <=> n = gnode }

GestureInit ==
  /\ parent \in Trees
  /\ gnode \in Nodes
  /\ pointer \in {"touch", "mouse"}
  /\ config \in GestureConfigs
  /\ currentResponder = emptyResponder
  /\ trackedTouchCount = 0
  /\ touches = <<>>
  /\ log = <<>>
  /\ lastEvent = NoEvent("none")
  /\ prevResponder = emptyResponder
  /\ prevCount = 0
  /\ wanted = Null
  /\ seen = <<>>
  /\ tracked = FALSE
  /\ counted = 0
  /\ phase = "idle"
  /\ moves = 0
  /\ trace = <<>>
  /\ NoLca
  /\ NoComponents

MouseEvent(type, target) ==
  [Event(type, target) EXCEPT !.buttons = IF type = MOUSE_UP THEN 0 ELSE 1,
                              !.activeModality = "mouse"]

\* r is what eventListener did with the event of the gesture
GestureListened(r) ==
  /\ currentResponder' = r.responder
  /\ trackedTouchCount' = r.count
  /\ trace' = trace \o r.calls
  /\ UNCHANGED <<parent, config, historyVars, gnode, pointer, lcaVars,
                 componentVars>>

GestureStep(domEvent) == GestureListened(eventListener(domEvent))

GestureStart ==
  /\ phase = "idle"
  /\ phase' = "down"
  /\ UNCHANGED moves
  /\ IF pointer = "touch"
       THEN /\ touches' = <<gnode>>
            /\ GestureStep(TouchEvent(TOUCH_START, gnode, touches'))
       ELSE /\ UNCHANGED touches
            /\ GestureStep(MouseEvent(MOUSE_DOWN, gnode))

GestureMove ==
  /\ phase = "down"
  /\ moves < MaxMoves
  /\ moves' = moves + 1
  /\ UNCHANGED <<phase, touches>>
  /\ IF pointer = "touch"
       THEN GestureStep(TouchEvent(TOUCH_MOVE, gnode, touches))
       ELSE \E t \in Nodes : GestureStep(MouseEvent(MOUSE_MOVE, t))

GestureEnd ==
  /\ phase = "down"
  /\ phase' = "done"
  /\ UNCHANGED moves
  /\ IF pointer = "touch"
       THEN /\ touches' = <<>>
            /\ GestureStep(TouchEvent(TOUCH_END, gnode, touches'))
       ELSE /\ UNCHANGED touches
            /\ \E t \in Nodes : GestureStep(MouseEvent(MOUSE_UP, t))

GestureNext == GestureStart \/ GestureMove \/ GestureEnd

GestureSpec == GestureInit /\ [][GestureNext]_vars

(***************************************************************************)
(* getLowestCommonAncestor applied to two paths.                           *)
(***************************************************************************)
\* the longest path given to getLowestCommonAncestor
MaxPathLen == 3

PathNodes == Nodes \cup {Window}

LcaPaths ==
  UNION { { p \in [1..k -> PathNodes] :
              \A i, j \in 1..k : p[i] = p[j] => i = j } : k \in 0..MaxPathLen }

LcaInit ==
  /\ parent = <<Null, 1, 2>>
  /\ config = [n \in Nodes |-> "null"]
  /\ currentResponder = emptyResponder
  /\ trackedTouchCount = 0
  /\ touches = <<>>
  /\ log = <<>>
  /\ lastEvent = NoEvent("none")
  /\ prevResponder = emptyResponder
  /\ prevCount = 0
  /\ wanted = Null
  /\ seen = <<>>
  /\ tracked = FALSE
  /\ counted = 0
  /\ NoGesture
  /\ NoComponents
  /\ lcaA \in LcaPaths
  /\ lcaB \in LcaPaths
  /\ lcaOut = Null
  /\ lcaDone = FALSE

LcaApply ==
  /\ ~lcaDone
  /\ lcaOut' = getLowestCommonAncestor(lcaA, lcaB)
  /\ lcaDone' = TRUE
  /\ UNCHANGED <<lcaA, lcaB, engineVars, historyVars, gestureVars,
                 componentVars>>

LcaSpec == LcaInit /\ [][LcaApply]_vars

(***************************************************************************)
(* Selecting text while a pointer is down: the hosts registered configs    *)
(* that want the responder on a select.                                    *)
(***************************************************************************)
SelectConfigSet == {"null", "select", "selectCapture"}

SelectInit ==
  /\ parent \in Trees
  /\ config \in [Nodes -> SelectConfigSet]
  /\ currentResponder = emptyResponder
  /\ trackedTouchCount = 0
  /\ touches = <<>>
  /\ log = <<>>
  /\ lastEvent = NoEvent("none")
  /\ prevResponder = emptyResponder
  /\ prevCount = 0
  /\ wanted = Null
  /\ seen = <<>>
  /\ tracked = FALSE
  /\ counted = 0
  /\ NoGesture
  /\ NoLca
  /\ NoComponents

SelectNext == TouchStart \/ TouchMove \/ TouchEnd \/ Select \/ ClearLog

SelectSpec == SelectInit /\ [][SelectNext]_vars

(***************************************************************************)
(* The hosts mount through useResponder, which calls attachListeners and   *)
(* setConfig; the browser delivers a native event to every listener wired  *)
(* for its type along its propagation path.                                *)
(***************************************************************************)
\* the largest number of useResponder ref callbacks
MaxAttach == 3

\* whether a native event of the type bubbles up to document and window
bubbles(type) == type \notin {BLUR, SCROLL}

\* the wirings whose listener the browser calls for an event of the type
\* on the target (the window, or an element below document and window)
reached(type, target) ==
  { w \in Wirings :
      /\ w.type = type
      /\ IF target = Window THEN w.target = "window"
         ELSE w.capture \/ bubbles(type) }

\* how often eventListener is called for the event
invocations(type, target) ==
  Cardinality(UNION { { <<w, k>> : k \in 1..listeners[w] } :
                        w \in reached(type, target) })

\* the ref callback of useResponder(config) for the node
UseResponder ==
  \E n \in Nodes, c \in ConfigSet :
    /\ attachCalls < MaxAttach
    /\ attachCalls' = attachCalls + 1
    /\ active' = attachListeners.active
    /\ listeners' = attachListeners.listeners
    /\ config' = [config EXCEPT ![n] = c]
    /\ processed' = 0
    /\ lastEvent' = NoEvent("none")
    /\ UNCHANGED <<parent, currentResponder, trackedTouchCount, touches, log,
                   prevResponder, prevCount, wanted, seen, tracked, counted, gestureVars,
                   lcaVars, hookVars, pressVars, panVars, hoverVars>>

\* the browser fires a native event
Deliver ==
  \E type \in EventTypes, target \in Nodes \cup {Window} :
    /\ target = Window => type = BLUR
    /\ processed' = invocations(type, target)
    /\ lastEvent' = Event(type, target)
    /\ UNCHANGED <<engineVars, log, prevResponder, prevCount, wanted, seen, tracked, counted,
                   active, listeners, attachCalls, gestureVars, lcaVars, hookVars,
                   pressVars, panVars, hoverVars>>

AttachNext == UseResponder \/ Deliver

AttachSpec == Init /\ [][AttachNext]_vars

(***************************************************************************)
(* The press specification: one usePress target, with onLongPress and      *)
(* onPress, pressed with the mouse.  Time passes in steps of TickMs; the   *)
(* long-press timer runs when its delay has elapsed, before any later      *)
(* event.  A click follows every release of the pointer.                   *)
(***************************************************************************)
TickMs == 250

PressCoords == {1, 7, 9, 12}

PressPositions == PressCoords \X PressCoords

PressConfigs ==
  { c \in [Nodes -> {"null", "press"}] :
      Cardinality({ n \in Nodes : c[n] = "press" }) = 1 }

pressNode == CHOOSE n \in Nodes : config[n] = "press"

PressInit ==
  /\ parent \in Trees
  /\ config \in PressConfigs
  /\ currentResponder = emptyResponder
  /\ trackedTouchCount = 0
  /\ touches = <<>>
  /\ log = <<>>
  /\ lastEvent = NoEvent("none")
  /\ prevResponder = emptyResponder
  /\ prevCount = 0
  /\ wanted = Null
  /\ seen = <<>>
  /\ tracked = FALSE
  /\ counted = 0
  /\ NoGesture
  /\ NoLca
  /\ NoComponents

\* r is what the responder system did with an event at pos
PressListened(r, pos) ==
  /\ currentResponder' = r.responder
  /\ trackedTouchCount' = r.count
  /\ log' = r.calls
  /\ press' = pressHandle(press, r.calls, pressNode, pos)
  /\ UNCHANGED <<parent, config, touches, lastEvent, prevResponder,
                 prevCount, wanted, seen, tracked, counted, gestureVars, lcaVars, hookVars, wiringVars,
                 panVars, hoverVars>>

PressDown ==
  /\ pressPhase \in {"up", "clicked"}
  /\ \E pos \in PressPositions :
       /\ PressListened(eventListener(MouseEvent(MOUSE_DOWN, pressNode)), pos)
       /\ origin' = pos
  /\ pressPhase' = "down"
  /\ elapsed' = 0
  /\ strayed' = FALSE
  /\ held' = FALSE
  /\ longPresses' = 0
  /\ presses' = 0

PressMove ==
  /\ pressPhase \in {"down", "cancelled"}
  /\ \E pos \in PressPositions, t \in Nodes :
       /\ PressListened(eventListener(MouseEvent(MOUSE_MOVE, t)), pos)
       /\ strayed' = (strayed \/ beyondThreshold(origin[1] - pos[1],
                                                 origin[2] - pos[2]))
  /\ UNCHANGED <<pressPhase, elapsed, origin, held, longPresses, presses>>

\* time passes, during the gesture and after it; the timers set by
\* setTimeout run once the delay is over, and held tells that the pointer
\* was down all that time
PressTick ==
  /\ pressPhase # "up"
  /\ elapsed < longPressDelay
  /\ elapsed' = elapsed + TickMs
  /\ IF elapsed' >= longPressDelay
       THEN /\ held' = (held \/ pressPhase \in {"down", "cancelled"})
            /\ IF press.timers > 0
                 THEN /\ press' = [pressTimeout(press) EXCEPT
                                     !.longPressTimeout =
                                       IF @ = "pending" THEN "fired" ELSE @,
                                     !.timers = 0]
                      /\ longPresses' =
                           longPresses + IF callsLongPress(press)
                                           THEN press.timers ELSE 0
                 ELSE UNCHANGED <<press, longPresses>>
       ELSE UNCHANGED <<press, held, longPresses>>
  /\ UNCHANGED <<engineVars, historyVars, gestureVars, lcaVars, hookVars, wiringVars,
                 panVars, hoverVars, pressPhase, origin, strayed, presses>>

PressUp ==
  /\ pressPhase \in {"down", "cancelled"}
  /\ \E pos \in PressPositions, t \in Nodes :
       /\ PressListened(eventListener(MouseEvent(MOUSE_UP, t)), pos)
       /\ strayed' = (strayed \/ beyondThreshold(origin[1] - pos[1],
                                                 origin[2] - pos[2]))
  /\ pressPhase' = IF pressPhase = "down" THEN "released" ELSE "ended"
  /\ UNCHANGED <<elapsed, origin, held, longPresses, presses>>

\* the click listener of the target
PressClick ==
  /\ pressPhase \in {"released", "ended"}
  /\ \E pos \in PressPositions, hasSelection \in BOOLEAN, altKey \in BOOLEAN :
       presses' =
         presses + IF callsPress(press, pos, hasSelection, altKey) THEN 1 ELSE 0
  /\ pressPhase' = IF pressPhase = "released" THEN "clicked" ELSE "up"
  /\ UNCHANGED <<engineVars, historyVars, gestureVars, lcaVars, hookVars, wiringVars,
                 panVars, hoverVars, press, elapsed, origin, strayed, held,
                 longPresses>>

\* the responder is terminated while the pointer is down
PressCancel ==
  /\ pressPhase = "down"
  /\ currentResponder' = terminateResponder.responder
  /\ trackedTouchCount' = terminateResponder.count
  /\ log' = terminateResponder.calls
  /\ press' = pressHandle(press, terminateResponder.calls, pressNode, origin)
  /\ pressPhase' = "cancelled"
  /\ UNCHANGED <<parent, config, touches, lastEvent, prevResponder,
                 prevCount, wanted, seen, tracked, counted, gestureVars, lcaVars, hookVars, wiringVars,
                 panVars, hoverVars, elapsed, origin, strayed, held,
                 longPresses, presses>>

PressNext ==
  PressDown \/ PressMove \/ PressTick \/ PressUp \/ PressClick \/ PressCancel

PressSpec == PressInit /\ [][PressNext]_vars

(***************************************************************************)
(* The pan specification: one usePan target and the touches "A" and "B"    *)
(* on it.  Each touch event carries a later time stamp than the one        *)
(* before; one touch starts, moves or ends per event.                      *)
(***************************************************************************)
PanTimes == {1, 2, 5, 10}

\* the time stamps of the events after an interaction timer has run
LatePanTimes == {300, 310}

EventTimes ==
  IF now >= INTERACTION_TIMEOUT_MS THEN LatePanTimes ELSE PanTimes

PanCoords == {0, 10, 20}

PanConfigs ==
  { c \in [Nodes -> {"null", "pan"}] :
      Cardinality({ n \in Nodes : c[n] = "pan" }) = 1 }

panNode == CHOOSE n \in Nodes : config[n] \in {"pan", "panMove"}

PanInit ==
  /\ parent \in Trees
  /\ config \in PanConfigs
  /\ currentResponder = emptyResponder
  /\ trackedTouchCount = 0
  /\ touches = <<>>
  /\ log = <<>>
  /\ lastEvent = NoEvent("none")
  /\ prevResponder = emptyResponder
  /\ prevCount = 0
  /\ wanted = Null
  /\ seen = <<>>
  /\ tracked = FALSE
  /\ counted = 0
  /\ NoGesture
  /\ NoLca
  /\ NoComponents

\* the touch list of a store with count active touches, all on the target
touchList(count) == [i \in 1..count |-> panNode]

\* p is what the callbacks of usePan left
PanHandled(p) ==
  /\ gestureState' = p[1]
  /\ interactionState' = p[2]

\* r is what the responder system did with the event recorded in history
PanListened(r, history, timeStamp) ==
  /\ currentResponder' = r.responder
  /\ trackedTouchCount' = r.count
  /\ log' = r.calls
  /\ interactionState.timers > 0 => timeStamp < interactionState.due
  /\ touchHistory' = history
  /\ now' = timeStamp
  /\ UNCHANGED noCentroid
  /\ PanHandled(panHandle(<<gestureState, interactionState>>, r.calls,
                          panNode, history, Len(touches')))
  /\ UNCHANGED <<parent, config, lastEvent, prevResponder, prevCount, wanted,
                 seen, tracked, counted, gestureVars, lcaVars, hookVars, wiringVars, pressVars,
                 hoverVars>>

PanTouchStart ==
  \E id \in PanTouches, pageX \in PanCoords, timeStamp \in EventTimes :
    /\ timeStamp > now
    /\ ~touchHistory.touchBank[id].touchActive
    /\ touches' = touchList(Len(touches) + 1)
    /\ lastMove' = NoMove
    /\ PanListened(eventListener(TouchEvent(TOUCH_START, panNode, touches')),
                   recordTouchStart(touchHistory, id, pageX, timeStamp),
                   timeStamp)

PanTouchMove ==
  \E id \in PanTouches, pageX \in PanCoords, timeStamp \in EventTimes :
    /\ timeStamp > now
    /\ touchHistory.touchBank[id].touchActive
    /\ UNCHANGED touches
    /\ lastMove' = [touch |-> id,
                    by |-> pageX - touchHistory.touchBank[id].currentPageX,
                    first |-> gestureState.accountsForMovesUpTo = 0]
    /\ PanListened(eventListener(TouchEvent(TOUCH_MOVE, panNode, touches)),
                   recordTouchMove(touchHistory, id, pageX, timeStamp),
                   timeStamp)

PanTouchEnd ==
  \E id \in PanTouches, timeStamp \in EventTimes :
    /\ timeStamp > now
    /\ touchHistory.touchBank[id].touchActive
    /\ touches' = touchList(Len(touches) - 1)
    /\ lastMove' = NoMove
    /\ PanListened(eventListener(TouchEvent(TOUCH_END, panNode, touches')),
                   recordTouchEnd(touchHistory, id, timeStamp),
                   timeStamp)

\* time passes until a timer of setInteractionTimeout is due, and it runs
PanTimeout ==
  /\ interactionState.timers > 0
  /\ interactionState' =
       [interactionTimeout(interactionState) EXCEPT
          !.timeout = IF @ = "pending" THEN "fired" ELSE @,
          !.timers = @ - 1]
  /\ now' = IF now < interactionState.due THEN interactionState.due ELSE now
  /\ UNCHANGED <<engineVars, historyVars, gestureVars, lcaVars, hookVars, wiringVars,
                 pressVars, hoverVars, gestureState, touchHistory, noCentroid,
                 lastMove>>

PanNext == PanTouchStart \/ PanTouchMove \/ PanTouchEnd \/ PanTimeout

PanSpec == PanInit /\ [][PanNext]_vars

(***************************************************************************)
(* The pan gesture specification: one usePan target that takes the         *)
(* responder on a start or in the capture phase of a move, touches that    *)
(* the browser may cancel, and a centroid of no touch that is any of       *)
(* EmptyCentroids.                                                         *)
(***************************************************************************)
EmptyCentroids == {-1, 0}

PanGestureConfigs ==
  { c \in [Nodes -> {"null", "pan", "panMove"}] :
      Cardinality({ n \in Nodes : c[n] # "null" }) = 1 }

PanGestureInit ==
  /\ parent \in Trees
  /\ config \in PanGestureConfigs
  /\ currentResponder = emptyResponder
  /\ trackedTouchCount = 0
  /\ touches = <<>>
  /\ log = <<>>
  /\ lastEvent = NoEvent("none")
  /\ prevResponder = emptyResponder
  /\ prevCount = 0
  /\ wanted = Null
  /\ seen = <<>>
  /\ tracked = FALSE
  /\ counted = 0
  /\ NoGesture
  /\ NoLca
  /\ NoWiring
  /\ NoPress
  /\ NoHover
  /\ NoHooks
  /\ gestureState = initialGestureState
  /\ interactionState = initialInteractionState
  /\ touchHistory = initialTouchHistory
  /\ noCentroid \in EmptyCentroids
  /\ now = 0
  /\ lastMove = NoMove

PanTouchCancel ==
  \E id \in PanTouches, timeStamp \in EventTimes :
    /\ timeStamp > now
    /\ touchHistory.touchBank[id].touchActive
    /\ touches' = touchList(Len(touches) - 1)
    /\ lastMove' = NoMove
    /\ PanListened(eventListener(TouchEvent(TOUCH_CANCEL, panNode, touches')),
                   recordTouchEnd(touchHistory, id, timeStamp),
                   timeStamp)

PanGestureNext ==
  \/ PanTouchStart \/ PanTouchMove \/ PanTouchEnd \/ PanTouchCancel
  \/ PanTimeout

PanGestureSpec == PanGestureInit /\ [][PanGestureNext]_vars

(***************************************************************************)
(* The hover specification: the pointer crosses one region border per      *)
(* event, which is the order in which the browser delivers the enter and   *)
(* leave events of a longer jump.                                          *)
(***************************************************************************)
HoverInit ==
  /\ parent \in Trees
  /\ config = [n \in Nodes |-> "null"]
  /\ currentResponder = emptyResponder
  /\ trackedTouchCount = 0
  /\ touches = <<>>
  /\ log = <<>>
  /\ lastEvent = NoEvent("none")
  /\ prevResponder = emptyResponder
  /\ prevCount = 0
  /\ wanted = Null
  /\ seen = <<>>
  /\ tracked = FALSE
  /\ counted = 0
  /\ NoGesture
  /\ NoLca
  /\ NoWiring
  /\ NoPress
  /\ NoPan
  /\ NoHooks
  /\ hoverBubbles \in [Regions -> BOOLEAN]
  /\ hoverAt = 0
  /\ pointerType = "mouse"
  /\ hovered = [r \in Regions |-> FALSE]
  /\ listening = [r \in Regions |-> FALSE]
  /\ hoverCalls = [r \in Regions |-> <<>>]

\* h is what the listeners of the event e did
Hovered(h, e) ==
  /\ hovered' = h.hovered
  /\ hoverCalls' = h.calls
  /\ pointerType' = e
  /\ UNCHANGED <<engineVars, historyVars, gestureVars, lcaVars, hookVars, wiringVars,
                 pressVars, panVars, hoverBubbles>>

HoverRoom == \A r \in Regions : Len(hoverCalls[r]) < MaxHoverCalls

\* pointerenter (or mouseenter) on the region inside the current one; the
\* region attaches its on-demand listeners
HoverEnter ==
  /\ hoverAt < MaxDepth
  /\ HoverRoom
  /\ hoverAt' = hoverAt + 1
  /\ \E e \in {"mouse", "touch"} :
       /\ hoverAt # 0 => e = pointerType
       /\ listening' = [listening EXCEPT ![hoverAt'] = (e # "touch")]
       /\ Hovered(enterListener([hovered |-> hovered, calls |-> hoverCalls],
                                hoverAt', e),
                  e)

\* pointerleave (or mouseleave) on the current region, heard by its
\* on-demand listener, which removes the on-demand listeners
HoverLeave ==
  /\ hoverAt > 0
  /\ HoverRoom
  /\ hoverAt' = hoverAt - 1
  /\ listening' = [listening EXCEPT ![hoverAt] = FALSE]
  /\ Hovered(IF listening[hoverAt]
               THEN leaveListener([hovered |-> hovered, calls |-> hoverCalls],
                                  hoverAt, pointerType)
               ELSE [hovered |-> hovered, calls |-> hoverCalls],
             pointerType)

HoverNext == HoverEnter \/ HoverLeave

HoverSpec == HoverInit /\ [][HoverNext]_vars

(***************************************************************************)
(* The stop specification: predicates that stop the propagation of the     *)
(* responder event, among nodes that want the responder.                   *)
(***************************************************************************)
StopConfigSet == {"null", "bubble", "move", "stopCapture", "stopBubble"}

StopInit ==
  /\ parent \in Trees
  /\ config \in [Nodes -> StopConfigSet]
  /\ currentResponder = emptyResponder
  /\ trackedTouchCount = 0
  /\ touches = <<>>
  /\ log = <<>>
  /\ lastEvent = NoEvent("none")
  /\ prevResponder = emptyResponder
  /\ prevCount = 0
  /\ wanted = Null
  /\ seen = <<>>
  /\ tracked = FALSE
  /\ counted = 0
  /\ NoGesture
  /\ NoLca
  /\ NoComponents

StopNext ==
  TouchStart \/ TouchMove \/ TouchEnd \/ Scroll \/ ClearLog

StopSpec == StopInit /\ [][StopNext]_vars

(***************************************************************************)
(* The scroll specification: nodes that answer the scroll questions, below *)
(* touches that are down.                                                  *)
(***************************************************************************)
ScrollConfigSet == {"null", "bubble", "move", "scrollRefuse"}

ScrollInit ==
  /\ parent \in Trees
  /\ config \in [Nodes -> ScrollConfigSet]
  /\ currentResponder = emptyResponder
  /\ trackedTouchCount = 0
  /\ touches = <<>>
  /\ log = <<>>
  /\ lastEvent = NoEvent("none")
  /\ prevResponder = emptyResponder
  /\ prevCount = 0
  /\ wanted = Null
  /\ seen = <<>>
  /\ tracked = FALSE
  /\ counted = 0
  /\ NoGesture
  /\ NoLca
  /\ NoComponents

ScrollNext == TouchStart \/ TouchEnd \/ Scroll \/ ClearLog

ScrollSpec == ScrollInit /\ [][ScrollNext]_vars

(***************************************************************************)
(* The button specification: mouse buttons and modifier keys.  A button    *)
(* state is <<button, buttons>> of a mousedown: the button pressed and the *)
(* buttons held after it, among them the one pressed.                      *)
(***************************************************************************)
ButtonStates == { <<0, 1>>, <<0, 3>>, <<1, 4>>, <<2, 2>>, <<2, 3>> }

ButtonConfigSet == {"null", "bubble", "capture"}

ButtonInit ==
  /\ parent \in Trees
  /\ config \in [Nodes -> ButtonConfigSet]
  /\ currentResponder = emptyResponder
  /\ trackedTouchCount = 0
  /\ touches = <<>>
  /\ log = <<>>
  /\ lastEvent = NoEvent("none")
  /\ prevResponder = emptyResponder
  /\ prevCount = 0
  /\ wanted = Null
  /\ seen = <<>>
  /\ tracked = FALSE
  /\ counted = 0
  /\ NoGesture
  /\ NoLca
  /\ NoComponents

ButtonDown ==
  \E t \in Nodes, b \in ButtonStates, alt \in BOOLEAN, ctrl \in BOOLEAN :
    /\ UNCHANGED touches
    /\ Dispatch([Event(MOUSE_DOWN, t) EXCEPT !.button = b[1],
                                             !.buttons = b[2],
                                             !.altKey = alt,
                                             !.ctrlKey = ctrl,
                                             !.activeModality = "mouse"])

ButtonUp ==
  \E t \in Nodes :
    /\ UNCHANGED touches
    /\ Dispatch([Event(MOUSE_UP, t) EXCEPT !.activeModality = "mouse"])

ModifiedTouchStart ==
  \E t \in Nodes, alt \in BOOLEAN, ctrl \in BOOLEAN :
    /\ Len(touches) < MaxTouches
    /\ touches' = insertSorted(touches, t)
    /\ Dispatch([TouchEvent(TOUCH_START, t, touches') EXCEPT !.altKey = alt,
                                                             !.ctrlKey = ctrl])

ButtonNext ==
  ButtonDown \/ ButtonUp \/ ModifiedTouchStart \/ TouchEnd \/ ClearLog

ButtonSpec == ButtonInit /\ [][ButtonNext]_vars

(***************************************************************************)
(* The focus-within specification: focusin and focusout events reach the   *)
(* listeners of one useFocusWithin target in any order, and a render may   *)
(* change the disabled of its config.                                      *)
(***************************************************************************)
FocusInit ==
  /\ parent \in Trees
  /\ config = [n \in Nodes |-> "null"]
  /\ currentResponder = emptyResponder
  /\ trackedTouchCount = 0
  /\ touches = <<>>
  /\ log = <<>>
  /\ lastEvent = NoEvent("none")
  /\ prevResponder = emptyResponder
  /\ prevCount = 0
  /\ wanted = Null
  /\ seen = <<>>
  /\ tracked = FALSE
  /\ counted = 0
  /\ NoGesture
  /\ NoLca
  /\ NoWiring
  /\ NoPress
  /\ NoPan
  /\ NoHover
  /\ focusWithinRef = FALSE
  /\ focusDisabled \in BOOLEAN
  /\ focusIsElement \in BOOLEAN
  /\ focusCalls = <<>>
  /\ lastFocus = NoFocusEvent
  /\ NoModality
  /\ pressCalls = <<>>
  /\ NoOutside

\* f is what a listener of the target left of [ref, calls]
FocusHeard(type, relatedTarget, f) ==
  /\ focusWithinRef' = f.ref
  /\ focusCalls' = f.calls
  /\ lastFocus' = [type |-> type, relatedTarget |-> relatedTarget,
                   called |-> Len(f.calls) - Len(focusCalls),
                   within |-> focusWithinRef]
  /\ UNCHANGED <<engineVars, historyVars, gestureVars, lcaVars, wiringVars,
                 pressVars, panVars, hoverVars, modalityVars, pressCalls,
                 outsideVars, focusDisabled, focusIsElement>>

FocusIn ==
  \E relatedTarget \in FocusPlaces :
    /\ Len(focusCalls) < MaxFocusCalls
    /\ FocusHeard("focusin", relatedTarget,
                  focusInListener([ref |-> focusWithinRef,
                                   calls |-> focusCalls], focusDisabled))

FocusOut ==
  \E relatedTarget \in FocusPlaces :
    /\ Len(focusCalls) < MaxFocusCalls
    /\ FocusHeard("focusout", relatedTarget,
                  focusOutListener([ref |-> focusWithinRef,
                                    calls |-> focusCalls], focusDisabled,
                                   focusIsElement, relatedTarget))

\* a render with another disabled: the listeners are replaced
FocusRender ==
  /\ focusDisabled' = ~focusDisabled
  /\ lastFocus' = NoFocusEvent
  /\ UNCHANGED <<engineVars, historyVars, gestureVars, lcaVars, wiringVars,
                 pressVars, panVars, hoverVars, modalityVars, pressCalls,
                 outsideVars, focusWithinRef, focusIsElement, focusCalls>>

FocusNext == FocusIn \/ FocusOut \/ FocusRender

FocusSpec == FocusInit /\ [][FocusNext]_vars

(***************************************************************************)
(* The lifecycle specification: every attached node defines every          *)
(* lifecycle callback, and no host replaces a config.                      *)
(***************************************************************************)
LifecycleConfigSet == {"null", "bubble", "capture", "eager"}

LifecycleInit ==
  /\ parent \in Trees
  /\ config \in [Nodes -> LifecycleConfigSet]
  /\ currentResponder = emptyResponder
  /\ trackedTouchCount = 0
  /\ touches = <<>>
  /\ log = <<>>
  /\ lastEvent = NoEvent("none")
  /\ prevResponder = emptyResponder
  /\ prevCount = 0
  /\ wanted = Null
  /\ seen = <<>>
  /\ tracked = FALSE
  /\ counted = 0
  /\ NoGesture
  /\ NoLca
  /\ NoComponents

LifecycleNext ==
  \/ TouchStart \/ TouchMove \/ TouchEnd \/ TouchCancel
  \/ MouseDown \/ MouseMove \/ MouseUp \/ DragStart
  \/ ContextMenu \/ Scroll \/ Select \/ Blur
  \/ TerminateResponder \/ ClearLog

LifecycleSpec == LifecycleInit /\ [][LifecycleNext]_vars

(***************************************************************************)
(* Properties.                                                             *)
(***************************************************************************)
\* the last call processed a native event while node was the responder
NativeEvent == lastEvent.type \notin {"none", "terminateResponder"}

InLog(name, node) == \E i \in 1..Len(log) : log[i] = <<name, node>>

Named(name) == \E i \in 1..Len(log) : log[i][1] = name

Before(first, second) ==
  \E i, j \in 1..Len(log) : i < j /\ log[i] = first /\ log[j] = second

\* a is a strict ancestor of b in the document
StrictAncestor(a, b) == a # b /\ contains(a, b)

\* C1: the current responder is either empty (node and responderEventPath
\* both null), or one node with a non-null responderEventPath whose first
\* element is that node.
C1_ZeroOrOneResponder ==
  \/ /\ currentResponder.node = Null
     /\ currentResponder.responderEventPath = NullPath
  \/ /\ currentResponder.node \in Nodes
     /\ currentResponder.responderEventPath # NullPath
     /\ Len(currentResponder.responderEventPath) >= 1
     /\ currentResponder.responderEventPath[1] = currentResponder.node

C1_Witness ==
  /\ currentResponder.node \in Nodes
  /\ Len(currentResponder.responderEventPath) = 3
  /\ lastEvent.type = TOUCH_MOVE

ResponderCallbacks ==
  { "onResponderGrant", "onResponderReject", "onResponderStart",
    "onResponderMove", "onResponderEnd", "onResponderRelease",
    "onResponderTerminate", "onResponderTerminationRequest" }

IsResponderCallback(entry) == entry[1] \in ResponderCallbacks

Names(entries) == [i \in 1..Len(entries) |-> entries[i][1]]

\* C3: a start, N moves and an end of a single pointer on a node whose start
\* predicate returns true, from Empty and with no other predicate returning
\* true, dispatch to that node exactly one onResponderGrant, one
\* onResponderStart, N onResponderMove, one onResponderEnd and one
\* onResponderRelease, in that order, and leave the state Empty.
C3_GestureSequence ==
  phase = "done" =>
    LET dispatched == SelectSeq(trace, IsResponderCallback)
    IN /\ \A i \in 1..Len(dispatched) : dispatched[i][2] = gnode
       /\ Names(dispatched) =
            <<"onResponderGrant", "onResponderStart">>
              \o [i \in 1..moves |-> "onResponderMove"]
              \o <<"onResponderEnd", "onResponderRelease">>
       /\ currentResponder = emptyResponder

C3_Witness ==
  /\ phase = "done"
  /\ moves = 2
  /\ pointer = "mouse"
  /\ Len(SelectSeq(trace, IsResponderCallback)) = 6
  /\ currentResponder = emptyResponder

(***************************************************************************)
(* What getLowestCommonAncestor is to return for two paths of one tree.    *)
(***************************************************************************)
RECURSIVE commonSuffixLength(_, _)
commonSuffixLength(pathA, pathB) ==
  IF pathA = <<>> \/ pathB = <<>> \/ pathA[Len(pathA)] # pathB[Len(pathB)]
    THEN 0
    ELSE 1 + commonSuffixLength(SubSeq(pathA, 1, Len(pathA) - 1),
                                SubSeq(pathB, 1, Len(pathB) - 1))

\* two node-to-root paths of one tree share exactly a common suffix
PathsOfOneTree(pathA, pathB) ==
  \A i \in 1..Len(pathA), j \in 1..Len(pathB) :
    pathA[i] = pathB[j] =>
      /\ Len(pathA) - i = Len(pathB) - j
      /\ Len(pathA) - i < commonSuffixLength(pathA, pathB)

\* C4: for node-to-root paths that end in the same root,
\* getLowestCommonAncestor returns the first element of their longest common
\* suffix (the root itself when that is the only shared node); it returns
\* null when the last elements differ or a path is empty.
C4_LowestCommonAncestor ==
  (lcaDone /\ PathsOfOneTree(lcaA, lcaB)) =>
    LET k == commonSuffixLength(lcaA, lcaB)
    IN lcaOut = IF k = 0 THEN Null ELSE lcaA[Len(lcaA) - k + 1]

\* the callbacks of a transfer that the last call invoked, in order
TransferCalls ==
  SelectSeq(log, LAMBDA e : e[1] \in { "onResponderTerminationRequest",
                                       "onResponderTerminate",
                                       "onResponderGrant",
                                       "onResponderReject" })

C5_WitnessGranted ==
  /\ NativeEvent
  /\ wanted # Null
  /\ prevResponder.node # Null
  /\ Before(<<"onResponderTerminate", prevResponder.node>>,
            <<"onResponderGrant", wanted>>)
  /\ currentResponder.node = wanted

\* the attached nodes of the path of node, from node to the root
AttachedPath(node) == filterAttached(composedPathFallback(node))

\* the last call processed a start event or a move event
StartOrMove ==
  /\ \/ isStartish(lastEvent.type) /\ isPrimaryPointerDown(lastEvent)
     \/ isMoveish(lastEvent.type)
  /\ lastEvent.type \in {MOUSE_DOWN, MOUSE_MOVE} =>
       lastEvent.activeModality = "mouse"
  /\ lastEvent.type = MOUSE_MOVE => prevCount >= 1

CaptureName ==
  IF lastEvent.type \in {TOUCH_START, MOUSE_DOWN}
    THEN "onStartShouldSetResponderCapture"
    ELSE "onMoveShouldSetResponderCapture"

BubbleName ==
  IF lastEvent.type \in {TOUCH_START, MOUSE_DOWN}
    THEN "onStartShouldSetResponder"
    ELSE "onMoveShouldSetResponder"

\* C6: for a start or move event with no current responder, the outermost
\* node of the path whose capture predicate returns true is granted; if
\* there is none, the innermost node whose bubble predicate returns true is
\* granted (no predicate stopping the propagation).
C6_CaptureBeforeBubble ==
  (StartOrMove /\ prevResponder.node = Null) =>
    LET path == AttachedPath(lastEvent.target)
        Wants(i, name) == callbackOf(path[i], name) = "true"
        Stops(i, name) == callbackOf(path[i], name) = "stop"
    IN (\A i \in 1..Len(path) :
          ~Stops(i, CaptureName) /\ ~Stops(i, BubbleName)) =>
         IF \E i \in 1..Len(path) : Wants(i, CaptureName)
           THEN \E i \in 1..Len(path) :
                  /\ Wants(i, CaptureName)
                  /\ \A j \in (i + 1)..Len(path) : ~Wants(j, CaptureName)
                  /\ currentResponder.node = path[i]
         ELSE IF \E i \in 1..Len(path) : Wants(i, BubbleName)
           THEN \E i \in 1..Len(path) :
                  /\ Wants(i, BubbleName)
                  /\ \A j \in 1..(i - 1) : ~Wants(j, BubbleName)
                  /\ currentResponder.node = path[i]
         ELSE currentResponder.node = Null

\* a start on Y grants its ancestor X, whose capture predicate returns true
C6_Witness ==
  /\ StartOrMove
  /\ prevResponder.node = Null
  /\ lastEvent.type = TOUCH_START
  /\ \E X \in Nodes :
       /\ StrictAncestor(X, lastEvent.target)
       /\ config[X] = "capture"
       /\ config[lastEvent.target] = "bubble"
       /\ currentResponder.node = X

\* a start on Y grants Y when its ancestor X defines only the bubble predicate
C6_WitnessBubble ==
  /\ StartOrMove
  /\ prevResponder.node = Null
  /\ lastEvent.type = TOUCH_START
  /\ \E X \in Nodes :
       /\ StrictAncestor(X, lastEvent.target)
       /\ config[X] = "bubble"
       /\ config[lastEvent.target] = "bubble"
       /\ currentResponder.node = lastEvent.target

\* C7: a contextmenu event processed while N is the responder consults N's
\* onResponderTerminationRequest; if it returns false, neither
\* onResponderTerminate nor onResponderReject is dispatched, N remains the
\* responder and the touch count is not reset.
C7_ContextMenuVeto ==
  (/\ lastEvent.type = CONTEXT_MENU
   /\ prevResponder.node # Null
   /\ getResponderConfig(prevResponder.node).onResponderTerminationRequest
        = "false") =>
    /\ InLog("onResponderTerminationRequest", prevResponder.node)
    /\ ~Named("onResponderTerminate")
    /\ ~Named("onResponderReject")
    /\ currentResponder = prevResponder
    /\ trackedTouchCount = prevCount

C7_Witness ==
  /\ lastEvent.type = CONTEXT_MENU
  /\ prevResponder.node # Null
  /\ prevCount = 2
  /\ log = <<<<"onResponderTerminationRequest", prevResponder.node>>>>
  /\ currentResponder = prevResponder

\* a touch of the last event's touch list is on node or on a descendant
RemainingTouchIn(node) ==
  \E i \in 1..Len(lastEvent.touches) : contains(node, lastEvent.touches[i])

\* the last call processed an end event that is no cancel event
NonCancelEnd ==
  \/ lastEvent.type = TOUCH_END
  \/ lastEvent.type = MOUSE_UP /\ lastEvent.activeModality = "mouse"

\* C8: with N the responder, a touchend or mouseup dispatches onResponderEnd to N, and
\* dispatches onResponderRelease and empties the state if and only if no
\* touch remaining in the event's touch list is on N or a descendant of N;
\* otherwise N stays the responder and receives no onResponderRelease.
C8_ReleaseWhenNoTouchInside ==
  (NonCancelEnd /\ prevResponder.node # Null) =>
    LET N == prevResponder.node
        cfg == getResponderConfig(N)
    IN /\ cfg.onResponderEnd => InLog("onResponderEnd", N)
       /\ IF RemainingTouchIn(N)
            THEN /\ currentResponder = prevResponder
                 /\ ~Named("onResponderRelease")
            ELSE /\ currentResponder = emptyResponder
                 /\ cfg.onResponderRelease =>
                      Before(<<"onResponderEnd", N>>,
                             <<"onResponderRelease", N>>)

\* a touch remains on a descendant of N, so N keeps the lock
C8_Witness ==
  /\ lastEvent.type = TOUCH_END
  /\ prevResponder.node # Null
  /\ prevCount = 2
  /\ \E i \in 1..Len(lastEvent.touches) :
       StrictAncestor(prevResponder.node, lastEvent.touches[i])
  /\ log = <<<<"onResponderEnd", prevResponder.node>>>>
  /\ currentResponder = prevResponder

\* the remaining touch is outside N, so N is released
C8_WitnessReleased ==
  /\ lastEvent.type = TOUCH_END
  /\ prevResponder.node # Null
  /\ Len(lastEvent.touches) = 1
  /\ InLog("onResponderRelease", prevResponder.node)
  /\ currentResponder = emptyResponder

\* C9: a touchcancel or dragstart processed while N is the responder
\* dispatches onResponderEnd and then onResponderTerminate to N and nothing
\* else (no onResponderTerminationRequest, no onResponderRelease), empties
\* the state and resets the touch count to 0, whatever touches remain.
C9_CancelTerminates ==
  (lastEvent.type \in {TOUCH_CANCEL, MOUSE_CANCEL}
     /\ prevResponder.node # Null) =>
    LET N == prevResponder.node
        cfg == getResponderConfig(N)
    IN /\ log = call(cfg.onResponderEnd, "onResponderEnd", N)
                  \o call(cfg.onResponderTerminate, "onResponderTerminate", N)
       /\ currentResponder = emptyResponder
       /\ trackedTouchCount = 0

\* a responder that refuses termination is terminated by a touchcancel that
\* leaves a touch on it
C9_Witness ==
  /\ lastEvent.type = TOUCH_CANCEL
  /\ prevResponder.node # Null
  /\ RemainingTouchIn(prevResponder.node)
  /\ getResponderConfig(prevResponder.node).onResponderTerminationRequest
       = "false"
  /\ log = << <<"onResponderEnd", prevResponder.node>>,
              <<"onResponderTerminate", prevResponder.node>> >>
  /\ currentResponder = emptyResponder
  /\ trackedTouchCount = 0

\* C10: whenever one event moves the lock from a responder A to another node
\* B, B is a strict ancestor of A: never a descendant of A, nor a node of a
\* sibling subtree.
C10_TransferOnlyToAncestor ==
  (/\ NativeEvent
   /\ prevResponder.node # Null
   /\ currentResponder.node # Null
   /\ currentResponder.node # prevResponder.node) =>
    StrictAncestor(currentResponder.node, prevResponder.node)

\* the event is on a node beside A and an ancestor of A takes the lock
C10_Witness ==
  /\ NativeEvent
  /\ prevResponder.node # Null
  /\ currentResponder.node # Null
  /\ currentResponder.node # prevResponder.node
  /\ ~contains(lastEvent.target, prevResponder.node)
  /\ ~contains(prevResponder.node, lastEvent.target)

\* C11: while a lifecycle callback runs, the current responder has already
\* been updated; in particular getResponderNode() returns N while
\* onResponderGrant runs for N, for a grant from Empty and for a transfer.
C11_GrantSeesNewResponder ==
  NativeEvent =>
    \A i \in 1..Len(log) :
      log[i][1] = "onResponderGrant" => seen[i] = log[i][2]

\* the select predicates of the attached nodes of the last event's path
WantsOnSelect(node) ==
  \/ getResponderConfig(node).onSelectShouldSetResponder = "true"
  \/ getResponderConfig(node).onSelectShouldSetResponderCapture = "true"

\* C12: with no current responder and at least one tracked touch, a select
\* event whose path contains a node whose onSelectShouldSetResponder or
\* onSelectShouldSetResponderCapture returns true grants that node.
C12_SelectGrants ==
  (/\ lastEvent.type = SELECT
   /\ prevResponder.node = Null
   /\ prevCount >= 1
   /\ \E i \in 1..Len(AttachedPath(lastEvent.target)) :
        WantsOnSelect(AttachedPath(lastEvent.target)[i])) =>
    /\ currentResponder.node # Null
    /\ WantsOnSelect(currentResponder.node)
    /\ InLog("onResponderGrant", currentResponder.node)

\* the last call was terminateResponder()
Terminated == lastEvent.type = "terminateResponder"

\* C13: terminateResponder() called when the state is Empty invokes no
\* callback and leaves the state Empty; called again right after a call, it
\* invokes nothing and changes nothing, so any number of calls in a row
\* amounts to one.
C13_TerminateIdempotent ==
  /\ (Terminated /\ prevResponder.node = Null) =>
       log = <<>> /\ currentResponder = emptyResponder
  /\ Terminated =>
       terminateResponder = [responder |-> currentResponder,
                             count |-> trackedTouchCount, calls |-> <<>>]

\* terminateResponder() is called on the Empty state while registered nodes
\* define onResponderTerminate
C13_Witness ==
  /\ Terminated
  /\ prevResponder.node = Null
  /\ \A n \in Nodes : getResponderConfig(n).onResponderTerminate
  /\ log = <<>>
  /\ currentResponder = emptyResponder

\* C14: terminateResponder() called when the state is Empty leaves the
\* touch count unchanged, so the mousemove events of a pointer that is down
\* without a responder are still processed.
C14_TerminateKeepsTouchCount ==
  (Terminated /\ prevResponder.node = Null) =>
    /\ trackedTouchCount = prevCount
    /\ prevCount >= 1 =>
         \A t \in Nodes :
           ~isIgnored([Event(MOUSE_MOVE, t) EXCEPT
                         !.buttons = 1, !.activeModality = "mouse"])

\* C15: terminateResponder() called while N is the responder dispatches
\* onResponderTerminate to N once when N defines it, and nothing else (N's
\* onResponderTerminationRequest is not consulted); the state becomes Empty
\* and the touch count 0.
C15_TerminateActive ==
  (Terminated /\ prevResponder.node # Null) =>
    /\ log = call(getResponderConfig(prevResponder.node).onResponderTerminate,
                  "onResponderTerminate", prevResponder.node)
    /\ currentResponder = emptyResponder
    /\ trackedTouchCount = 0

\* a responder that refuses termination requests is terminated with touches
\* down
C15_Witness ==
  /\ Terminated
  /\ prevResponder.node # Null
  /\ prevCount = 2
  /\ getResponderConfig(prevResponder.node).onResponderTerminationRequest
       = "false"
  /\ log = <<<<"onResponderTerminate", prevResponder.node>>>>
  /\ currentResponder = emptyResponder
  /\ trackedTouchCount = 0

\* C16: a node whose config was set and then set to null has the empty
\* default config, appears in no path of getResponderEventPath, and none of
\* its callbacks is invoked by a later event.
C16_NullConfigRoundTrip ==
  \A n \in Nodes :
    config[n] = "null" =>
      /\ getResponderConfig(n) = EmptyConfig
      /\ \A t \in Nodes :
           \A i \in 1..Len(getResponderEventPath(Event(TOUCH_START, t))) :
             getResponderEventPath(Event(TOUCH_START, t))[i] # n
      /\ NativeEvent => \A i \in 1..Len(log) : log[i][2] # n

\* the responder's config was set to null (so it had been registered), an
\* event on it arrives and its attached ancestor is asked instead
C16_Witness ==
  /\ lastEvent.type = TOUCH_MOVE
  /\ prevResponder.node # Null
  /\ config[prevResponder.node] = "null"
  /\ lastEvent.target = prevResponder.node
  /\ log # <<>>
  /\ \A i \in 1..Len(log) : log[i][2] # prevResponder.node

\* C17: after any number of attachListeners calls, each native event type
\* is wired to eventListener once (and nothing else is wired), so that
\* eventListener runs once for each native event.
C17_AttachListenersIdempotent ==
  /\ attachCalls >= 1 => active
  /\ \A w \in Wirings :
       listeners[w] = IF active /\ w \in attachedEvents THEN 1 ELSE 0
  /\ \A type \in EventTypes : \E w \in attachedEvents : w.type = type
  /\ (active /\ lastEvent.type \in EventTypes) => processed = 1

\* a blur of the window after several hosts have mounted
C17_Witness ==
  /\ attachCalls = MaxAttach
  /\ lastEvent.type = BLUR
  /\ lastEvent.target = Window
  /\ processed = 1

(***************************************************************************)
(* C18: for a usePress target with onLongPress, when the pointer stays     *)
(* down for the long-press delay without moving more than 10 units from    *)
(* where it went down (and the press is not terminated), onLongPress is    *)
(* called exactly once in the gesture, and the click that follows the      *)
(* release of the pointer does not call onPress.                           *)
(***************************************************************************)
LongPressed ==
  /\ held
  /\ ~strayed
  /\ pressPhase \in {"down", "released", "clicked"}

MovedAByTen ==
  /\ lastMove = [touch |-> "A", by |-> 10, first |-> TRUE]
  /\ now = 10
  /\ touchHistory.numberActiveTouches = 2
  /\ currentResponder.node = panNode

Alternates(calls) ==
  \A i \in 1..Len(calls) :
    calls[i] = IF i % 2 = 1 THEN "onHoverStart" ELSE "onHoverEnd"

C20_InnermostHovered ==
  (\A r \in Regions : hoverBubbles[r] = FALSE) =>
    /\ Cardinality({ r \in Regions : hovered[r] }) <= 1
    /\ \A r \in Regions : hovered[r] => r = hoverAt
    /\ \A r \in Regions : Alternates(hoverCalls[r])

\* the wants-responder predicates
ShouldSetNames ==
  { "onStartShouldSetResponderCapture", "onStartShouldSetResponder",
    "onMoveShouldSetResponderCapture", "onMoveShouldSetResponder",
    "onScrollShouldSetResponderCapture", "onScrollShouldSetResponder",
    "onSelectShouldSetResponderCapture", "onSelectShouldSetResponder" }

\* the last call invoked a wants-responder predicate
Asked == \E i \in 1..Len(log) : log[i][1] \in ShouldSetNames

Disjoint(pathA, pathB) ==
  \A i \in 1..Len(pathA), j \in 1..Len(pathB) : pathA[i] # pathB[j]

\* C21: when a start or move event arrives while a responder is active and
\* the event's path of registered nodes shares no node with the responder's
\* stored path, no wants-responder predicate is invoked, the responder
\* stays, and onResponderStart (or onResponderMove) is dispatched to it.
C21_DisconnectedPath ==
  (/\ StartOrMove
   /\ prevResponder.node # Null
   /\ Disjoint(prevResponder.responderEventPath,
               getResponderEventPath(lastEvent))) =>
    /\ ~Asked
    /\ currentResponder = prevResponder
    /\ log = IF isMoveish(lastEvent.type)
               THEN call(getResponderConfig(prevResponder.node).onResponderMove,
                         "onResponderMove", prevResponder.node)
               ELSE call(getResponderConfig(prevResponder.node).onResponderStart,
                         "onResponderStart", prevResponder.node)

C21_Witness ==
  /\ StartOrMove
  /\ prevResponder.node # Null
  /\ getResponderEventPath(lastEvent) # <<>>
  /\ Disjoint(prevResponder.responderEventPath,
              getResponderEventPath(lastEvent))
  /\ log = <<<<"onResponderStart", prevResponder.node>>>>

\* C22: a scroll or select event processed while at least one touch is
\* tracked and whose target is the responder N or a descendant of N invokes
\* neither onResponderTerminationRequest nor onResponderTerminate of N and
\* leaves N the responder.
C22_ScrollSelectInside ==
  (/\ lastEvent.type \in {SCROLL, SELECT}
   /\ prevResponder.node # Null
   /\ prevCount >= 1
   /\ contains(prevResponder.node, lastEvent.target)) =>
    /\ ~InLog("onResponderTerminationRequest", prevResponder.node)
    /\ ~InLog("onResponderTerminate", prevResponder.node)
    /\ currentResponder = prevResponder

\* C23: no wants-responder predicate is invoked on the node that is the
\* current responder when the event is negotiated, wherever the target of
\* the event lies: on the responder, below it, above it or beside it.
C23_ResponderNotAsked ==
  prevResponder.node # Null =>
    \A i \in 1..Len(log) :
      log[i][1] \in ShouldSetNames => log[i][2] # prevResponder.node

\* the target is the responder and a node above it was asked
C23_Witness ==
  /\ prevResponder.node # Null
  /\ lastEvent.target = prevResponder.node
  /\ Asked
  /\ \E i \in 1..Len(log) :
       /\ log[i][1] \in ShouldSetNames
       /\ StrictAncestor(log[i][2], prevResponder.node)

\* the i-th call of the last event was a predicate that stopped the
\* propagation (and did not return true)
Stopped(i) ==
  /\ log[i][1] \in ShouldSetNames
  /\ callbackOf(log[i][2], log[i][1]) = "stop"

\* C24: after a wants-responder predicate has stopped the propagation
\* without returning true, no further predicate is invoked for that native
\* event, in the capture or the bubble phase, and the negotiation leads to
\* no grant, no reject and no termination request: there is no candidate.
\* (The terminate step of a scroll event is not part of the negotiation.)
C24_StopPropagation ==
  \A i \in 1..Len(log) :
    Stopped(i) =>
      /\ wanted = Null
      /\ \A j \in (i + 1)..Len(log) :
           /\ log[j][1] \notin ShouldSetNames
           /\ log[j][1] \notin {"onResponderGrant", "onResponderReject"}
           /\ lastEvent.type # SCROLL =>
                log[j][1] # "onResponderTerminationRequest"
      /\ lastEvent.type # SCROLL => currentResponder = prevResponder

\* a capture predicate stopped the event above a node whose bubble
\* predicate wants the responder, while another node is the responder
C24_Witness ==
  /\ log # <<>>
  /\ Stopped(1)
  /\ log[1][1] = "onMoveShouldSetResponderCapture"
  /\ prevResponder.node = Null
  /\ currentResponder.node = Null
  /\ \E k \in 1..Len(getResponderEventPath(lastEvent)) :
       callbackOf(getResponderEventPath(lastEvent)[k],
                  "onMoveShouldSetResponder") = "true"

\* how often the last call invoked onResponderTerminationRequest
TerminationRequests ==
  Len(SelectSeq(log, LAMBDA e : e[1] = "onResponderTerminationRequest"))

\* C25: one native event invokes onResponderTerminationRequest at most
\* once; when the negotiation of the event has consulted it, the terminate
\* step does not consult it again, and the responder the negotiation left
\* (the old one after a refusal, the new one after a transfer) is not
\* terminated by the event.
C25_AskedOnce ==
  NativeEvent =>
    /\ TerminationRequests <= 1
    /\ (wanted # Null /\ prevResponder.node # Null) =>
         LET refused ==
               getResponderConfig(prevResponder.node)
                 .onResponderTerminationRequest = "false"
         IN /\ currentResponder.node =
                 IF refused THEN prevResponder.node ELSE wanted
            /\ ~InLog("onResponderTerminate", currentResponder.node)

\* a scroll above the responder, which is a terminate event for it, was
\* negotiated and refused
C25_Witness ==
  /\ lastEvent.type = SCROLL
  /\ wanted # Null
  /\ prevResponder.node # Null
  /\ StrictAncestor(lastEvent.target, prevResponder.node)
  /\ TerminationRequests = 1
  /\ wanted # prevResponder.node
  /\ isTerminateEvent(lastEvent, prevResponder.node, trackedTouchCount)
  /\ currentResponder = prevResponder

\* the last call processed a scroll event while touches were active
ScrollWithTouches == lastEvent.type = SCROLL /\ prevCount >= 1

Dropped ==
  \/ /\ lastEvent.type \in {MOUSE_DOWN, MOUSE_MOVE, MOUSE_UP}
     /\ lastEvent.activeModality # "mouse"
  \/ lastEvent.type = MOUSE_MOVE /\ prevCount = 0

\* C27: a mousedown, mousemove or mouseup processed while the active
\* modality is not mouse, and a mousemove processed while the touch count
\* is 0, change neither the current responder nor the touch count, record
\* no touch track and invoke no callback.
C27_IgnoredMouseEvents ==
  Dropped =>
    /\ currentResponder = prevResponder
    /\ trackedTouchCount = prevCount
    /\ ~tracked
    /\ log = <<>>

\* an emulated mouseup is dropped while a touch holds the responder
C27_Witness ==
  /\ Dropped
  /\ lastEvent.type = MOUSE_UP
  /\ prevResponder.node # Null
  /\ prevCount >= 1
  /\ currentResponder = prevResponder
  /\ trackedTouchCount = prevCount

\* the last event is a mousedown of another button than the primary one, or
\* with the alt or the ctrl key held
UnqualifiedMouseDown ==
  /\ lastEvent.type = MOUSE_DOWN
  /\ lastEvent.activeModality = "mouse"
  /\ lastEvent.button # 0 \/ lastEvent.altKey \/ lastEvent.ctrlKey

\* C28: a mousedown that is no press of the primary button, or that has the
\* alt or ctrl key held, is no start event: it invokes no predicate and no
\* callback, records no touch track and leaves the touch count and the
\* responder as they are.  A touchstart is always a start event: it sets
\* the touch count, records the touch track and dispatches
\* onResponderStart to the responder it leaves.
C28_UnqualifiedMouseDown ==
  /\ UnqualifiedMouseDown =>
       /\ log = <<>>
       /\ ~tracked
       /\ trackedTouchCount = prevCount
       /\ currentResponder = prevResponder
  /\ lastEvent.type = TOUCH_START =>
       /\ tracked
       /\ trackedTouchCount = Len(lastEvent.touches)
       /\ (/\ currentResponder.node # Null
           /\ getResponderConfig(currentResponder.node).onResponderStart) =>
            InLog("onResponderStart", currentResponder.node)

\* an alt-mousedown on a node that wants the responder, with none set
C28_Witness ==
  /\ UnqualifiedMouseDown
  /\ lastEvent.button = 0
  /\ lastEvent.altKey
  /\ prevResponder.node = Null
  /\ callbackOf(lastEvent.target, "onStartShouldSetResponder") = "true"
  /\ currentResponder.node = Null

\* the last event has taken the responder status from a node and given it
\* to none, in the terminate step
TerminatedByEvent ==
  /\ lastEvent.type \in {TOUCH_CANCEL, MOUSE_CANCEL, CONTEXT_MENU, BLUR,
                         SCROLL, SELECT}
  /\ prevResponder.node # Null
  /\ currentResponder.node = Null

\* C29: the touch count is never negative and is set before the callbacks
\* of the event run: a touch start, move or end sets it to the length of the
\* event's touch list, a primary mousedown to 1, a mouseup or a dragstart to
\* 0, and a mousemove leaves it as it was; the event leaves it so, except
\* that a termination, by an event or by terminateResponder(), leaves it 0.
C29_TouchCount ==
  /\ trackedTouchCount >= 0
  /\ counted >= 0
  /\ lastEvent.type \in {TOUCH_START, TOUCH_MOVE, TOUCH_END} =>
       /\ counted = Len(lastEvent.touches)
       /\ trackedTouchCount = counted
  /\ (/\ lastEvent.type = MOUSE_DOWN
      /\ lastEvent.activeModality = "mouse"
      /\ isPrimaryPointerDown(lastEvent)) =>
       /\ counted = 1
       /\ trackedTouchCount = 1
  /\ (\/ lastEvent.type = MOUSE_UP /\ lastEvent.activeModality = "mouse"
      \/ lastEvent.type = MOUSE_CANCEL) =>
       /\ counted = 0
       /\ trackedTouchCount = 0
  /\ lastEvent.type = MOUSE_MOVE =>
       /\ counted = prevCount
       /\ trackedTouchCount = prevCount
  /\ lastEvent.type = TOUCH_CANCEL =>
       /\ counted = Len(lastEvent.touches)
       /\ ~TerminatedByEvent => trackedTouchCount = counted
  /\ TerminatedByEvent \/ Terminated => trackedTouchCount = 0

\* a touchcancel that leaves a touch on the screen terminates the responder:
\* onResponderTerminate runs with the count of the touch list, and the
\* event leaves the count 0
C29_Witness ==
  /\ lastEvent.type = TOUCH_CANCEL
  /\ TerminatedByEvent
  /\ InLog("onResponderTerminate", prevResponder.node)
  /\ Len(lastEvent.touches) = 1
  /\ counted = 1
  /\ trackedTouchCount = 0

\* the gesture has invalidated the long press: the responder was released
\* or terminated, or the pointer has moved more than 10 units from where it
\* went down
LongPressInvalid == pressPhase # "down" \/ strayed

\* C30: for a usePress target, once the responder is released or terminated
\* or the pointer has moved more than 10 units from where it went down, no
\* long-press timer is pending and the handle is null, whether or not a
\* timer was pending before, and no later step calls onLongPress; the
\* target never has more than one long-press timer pending.
C30_LongPressTimerCleared ==
  [][/\ press'.timers <= 1
     /\ LongPressInvalid' =>
          /\ press'.timers = 0
          /\ press'.longPressTimeout = "null"
     /\ LongPressInvalid => longPresses' <= longPresses]_vars

\* the pointer was released before the delay and the delay has passed since:
\* onLongPress was not called
C30_Witness ==
  /\ pressPhase \in {"released", "clicked"}
  /\ elapsed >= longPressDelay
  /\ ~held
  /\ ~strayed
  /\ press.timers = 0
  /\ press.longPressTimeout = "null"
  /\ longPresses = 0

\* the place of the first call of name to the pan target among calls, 0 if
\* there is none
RECURSIVE placeOf(_, _, _)
placeOf(calls, name, k) ==
  IF k > Len(calls) THEN 0
  ELSE IF calls[k] = <<name, panNode>> THEN k
  ELSE placeOf(calls, name, k + 1)

\* the gesture state the callback name of the step has left
GestureAfter(name) ==
  panHandle(<<gestureState, interactionState>>,
            SubSeq(log', 1, placeOf(log', name, 1)), panNode, touchHistory',
            Len(touches'))[1]

\* C31: the gesture state of a usePan target is reset at the ends of an
\* interaction: every field is 0 after onResponderRelease and after
\* onResponderTerminate; the start-capture predicate of a start event with
\* one touch leaves every field 0 but the number of active touches, which
\* it takes from the store; deltaX is 0 when onPanGrant is called.
C31_GestureStateReset ==
  [][/\ (\/ placeOf(log', "onResponderRelease", 1) > 0
         \/ placeOf(log', "onResponderTerminate", 1) > 0) =>
          gestureState' = initialGestureState
     /\ (/\ placeOf(log', "onStartShouldSetResponderCapture", 1) > 0
         /\ Len(touches') = 1) =>
          GestureAfter("onStartShouldSetResponderCapture")
            = [initialGestureState EXCEPT !.numberActiveTouches =
                 touchHistory'.numberActiveTouches]
     /\ placeOf(log', "onResponderGrant", 1) > 0 =>
          GestureAfter("onResponderGrant").deltaX = 0]_vars

\* the last touch of a pan that has moved has ended: the responder is
\* released and the gesture state is the initial one
C31_Witness ==
  /\ placeOf(log, "onResponderRelease", 1) > 0
  /\ touchHistory.numberActiveTouches = 0
  /\ touchHistory.mostRecentTimeStamp >= 5
  /\ gestureState = initialGestureState

\* the gesture state the callback name of the step has found
GestureBefore(name) ==
  panHandle(<<gestureState, interactionState>>,
            SubSeq(log', 1, placeOf(log', name, 1) - 1), panNode,
            touchHistory', Len(touches'))[1]

\* the step is a move that asks the move-capture predicate of the pan
\* target, grants it the responder and dispatches onResponderMove to it
MovedTwice(calls) ==
  /\ placeOf(calls, "onMoveShouldSetResponderCapture", 1) > 0
  /\ placeOf(calls, "onResponderMove", 1)
       > placeOf(calls, "onMoveShouldSetResponderCapture", 1)

C37_ClickSuppressed ==
  [][/\ interactionState'.timers <= 1
     /\ currentResponder'.node = panNode => cancelsClick(interactionState')
     /\ interactionState'.timers > 0 => cancelsClick(interactionState')
     /\ (/\ touchHistory' # touchHistory
         /\ \/ placeOf(log', "onResponderRelease", 1) > 0
            \/ placeOf(log', "onResponderTerminate", 1) > 0) =>
          /\ interactionState'.timers = 1
          /\ interactionState'.due = now' + INTERACTION_TIMEOUT_MS
     /\ (cancelsClick(interactionState) /\ ~cancelsClick(interactionState')) =>
          /\ currentResponder.node # panNode
          /\ now' = interactionState.due]_vars

\* the target is granted the responder again before the timer of the
\* gesture before is due: the timer is cleared and the flag stays true
C37_Witness ==
  /\ currentResponder.node = panNode
  /\ interactionState.timeout = "cleared"
  /\ interactionState.timers = 0
  /\ now < interactionState.due
  /\ cancelsClick(interactionState)

\* C33: the arguments of the onFocusWithinChange calls of a target alternate
\* true, false, true, ..., whatever focusin and focusout events it hears; a
\* call is made only by an event that changes the focus-within state; a
\* focusout whose relatedTarget is within the target makes no call, and a
\* focusin while the focus is within makes no call.
C33_FocusWithinAlternates ==
  /\ \A k \in 1..Len(focusCalls) : focusCalls[k] = (k % 2 = 1)
  /\ lastFocus.called \in {0, 1}
  /\ lastFocus.called = 1 => focusWithinRef # lastFocus.within
  /\ (/\ lastFocus.type = "focusout"
      /\ focusContains(lastFocus.relatedTarget)) => lastFocus.called = 0
  /\ (lastFocus.type = "focusin" /\ lastFocus.within) => lastFocus.called = 0

\* the focus has come, gone and come again, and then moved within the
\* target
C33_Witness ==
  /\ focusCalls = <<TRUE, FALSE, TRUE>>
  /\ lastFocus.type = "focusin"
  /\ lastFocus.within
  /\ lastFocus.relatedTarget = "in1"
  /\ lastFocus.called = 0

\* the node that holds a grant after calls, holder being the one that held
\* it before; -1 when a grant finds a holder, or a release or a terminate
\* goes to another node than the holder
RECURSIVE holderAfter(_, _)
holderAfter(calls, holder) ==
  IF calls = <<>> \/ holder = -1 THEN holder
  ELSE LET name == Head(calls)[1]
           node == Head(calls)[2]
       IN holderAfter(
            Tail(calls),
            IF name = "onResponderGrant"
              THEN IF holder = Null THEN node ELSE -1
            ELSE IF name \in {"onResponderRelease", "onResponderTerminate"}
              THEN IF holder = node THEN Null ELSE -1
            ELSE holder)

restoreModality(m) ==
  IF m.previousModality # "null" \/ m.previousActiveModality # "null"
    THEN LET a == IF m.previousModality # "null"
                    THEN [m EXCEPT !.modality = m.previousModality,
                                   !.previousModality = "null"]
                    ELSE m
         IN  IF a.previousActiveModality # "null"
               THEN [a EXCEPT !.activeModality = a.previousActiveModality,
                              !.previousActiveModality = "null"]
               ELSE a
    ELSE m

onBlurWindow(m) ==
  [m EXCEPT !.previousModality = m.modality,
            !.previousActiveModality = m.activeModality,
            !.activeModality = KEYBOARD,
            !.modality = KEYBOARD,
            !.isEmulatingMouseEvents = FALSE]

onFocusWindow(m) == restoreModality(m)

onKeyDown(m, event) ==
  IF event.metaKey \/ event.altKey \/ event.ctrlKey THEN m
  ELSE IF m.modality # KEYBOARD
    THEN [m EXCEPT !.modality = KEYBOARD, !.activeModality = KEYBOARD]
  ELSE m

\* the fallback of onPointerish where there are no pointer events
onPointerishFallback(m, event) ==
  LET a == IF ~m.isEmulatingMouseEvents /\ event.type = MOUSE_DOWN
                /\ m.activeModality # MOUSE
             THEN [m EXCEPT !.modality = MOUSE, !.activeModality = MOUSE]
             ELSE m
      b == IF ~m.isEmulatingMouseEvents
                /\ event.type \in {MOUSE_MOVE, "mouseover"}
                /\ a.modality # MOUSE
             THEN [a EXCEPT !.modality = MOUSE]
             ELSE a
  IN  IF event.type = TOUCH_START
        THEN LET c == [b EXCEPT !.isEmulatingMouseEvents =
                                  ~(Len(event.touches) > 1)]
             IN  IF c.activeModality # TOUCH
                   THEN [c EXCEPT !.modality = TOUCH,
                                  !.activeModality = TOUCH]
                   ELSE c
      ELSE IF event.type \in {CONTEXT_MENU, MOUSE_UP, "selectionchange",
                              SCROLL, TOUCH_CANCEL, TOUCH_MOVE}
        THEN [b EXCEPT !.isEmulatingMouseEvents = FALSE]
      ELSE b

onPointerish(m, event, supportsPointerEvent) ==
  IF supportsPointerEvent
    THEN IF event.type = "pointerdown"
           THEN IF m.activeModality # event.pointerType
                  THEN [m EXCEPT !.modality = event.pointerType,
                                 !.activeModality = event.pointerType]
                  ELSE m
         ELSE IF event.type \in {"pointermove", "pointerover"}
           THEN IF m.modality # event.pointerType
                  THEN [m EXCEPT !.modality = event.pointerType]
                  ELSE m
         ELSE m
    ELSE onPointerishFallback(m, event)

(***************************************************************************)
(* The modality specification: the tracker and the engine hear the same    *)
(* native events, the tracker first (its listeners capture on the          *)
(* document), and the engine reads the active modality the tracker left.   *)
(* The window may lose and regain the focus, and keys may go down, at any  *)
(* time.                                                                   *)
(***************************************************************************)
MaxBlurs == 2

ModalityInit ==
  /\ parent \in Trees
  /\ config = [n \in Nodes |-> "bubble"]
  /\ currentResponder = emptyResponder
  /\ trackedTouchCount = 0
  /\ touches = <<>>
  /\ log = <<>>
  /\ lastEvent = NoEvent("none")
  /\ prevResponder = emptyResponder
  /\ prevCount = 0
  /\ wanted = Null
  /\ seen = <<>>
  /\ tracked = FALSE
  /\ counted = 0
  /\ NoGesture
  /\ NoLca
  /\ NoWiring
  /\ NoPress
  /\ NoPan
  /\ NoHover
  /\ NoFocus
  /\ tracker = initialTracker
  /\ pointerEvents \in BOOLEAN
  /\ blurs = 0
  /\ beforeBlur = <<KEYBOARD, KEYBOARD>>
  /\ lastWindow = "none"
  /\ grantedBy = "none"
  /\ pressCalls = <<>>
  /\ NoOutside

\* the pointer event the browser sends before a mouse or touch event
pointerDown(kind) ==
  [type |-> "pointerdown", pointerType |-> kind, touches |-> <<>>]

\* the tracker heard an input event and left m
TrackerHeard(type, m) ==
  /\ tracker' = m
  /\ blurs' = 0
  /\ lastWindow' = type
  /\ UNCHANGED <<pointerEvents, beforeBlur>>

\* the engine hears domEvent with the active modality m of the tracker
ModalityDispatch(domEvent, m) ==
  LET native == [domEvent EXCEPT !.activeModality = m.activeModality]
      r == eventListener(native)
  IN  /\ Cleared
      /\ Recorded(native, r)
      /\ grantedBy' = IF \E i \in 1..Len(r.calls) :
                            r.calls[i][1] = "onResponderGrant"
                        THEN domEvent.type
                      ELSE IF r.responder.node = Null THEN "none"
                      ELSE grantedBy
      /\ UNCHANGED <<wiringVars, pressVars, panVars, hoverVars, focusVars,
                     pressCalls, outsideVars>>

ModalityKeyDown ==
  \E ctrlKey \in BOOLEAN :
    /\ Cleared
    /\ TrackerHeard("keydown",
                    onKeyDown(tracker, [metaKey |-> FALSE, altKey |-> FALSE,
                                        ctrlKey |-> ctrlKey]))
    /\ UNCHANGED <<engineVars, historyVars, gestureVars, lcaVars, wiringVars,
                   pressVars, panVars, hoverVars, focusVars, pressCalls,
                   outsideVars, grantedBy>>

WindowBlur ==
  /\ Cleared
  /\ blurs < MaxBlurs
  /\ tracker' = onBlurWindow(tracker)
  /\ beforeBlur' = IF blurs = 0
                     THEN <<tracker.modality, tracker.activeModality>>
                     ELSE beforeBlur
  /\ blurs' = blurs + 1
  /\ lastWindow' = "blur"
  /\ UNCHANGED <<engineVars, historyVars, gestureVars, lcaVars, wiringVars,
                 pressVars, panVars, hoverVars, focusVars, pressCalls,
                 outsideVars, pointerEvents,
                 grantedBy>>

WindowFocus ==
  /\ Cleared
  /\ tracker' = onFocusWindow(tracker)
  /\ blurs' = 0
  /\ lastWindow' = IF blurs > 0 THEN "focus" ELSE "refocus"
  /\ UNCHANGED <<engineVars, historyVars, gestureVars, lcaVars, wiringVars,
                 pressVars, panVars, hoverVars, focusVars, pressCalls,
                 outsideVars, pointerEvents,
                 beforeBlur, grantedBy>>

\* a mouse button goes down; emulated, it follows a touch and no pointerdown
\* of the mouse precedes it
ModalityMouseDown ==
  \E t \in Nodes, emulated \in BOOLEAN :
    LET event == [Event(MOUSE_DOWN, t) EXCEPT !.buttons = 1]
        m == onPointerish(IF pointerEvents /\ ~emulated
                            THEN onPointerish(tracker, pointerDown(MOUSE),
                                              pointerEvents)
                            ELSE tracker,
                          event, pointerEvents)
    IN  /\ TrackerHeard(MOUSE_DOWN, m)
        /\ UNCHANGED touches
        /\ ModalityDispatch(event, m)

ModalityMouseUp ==
  \E t \in Nodes :
    LET event == Event(MOUSE_UP, t)
        m == onPointerish(tracker, event, pointerEvents)
    IN  /\ TrackerHeard(MOUSE_UP, m)
        /\ UNCHANGED touches
        /\ ModalityDispatch(event, m)

ModalityTouchStart ==
  \E t \in Nodes :
    /\ Len(touches) < MaxTouches
    /\ touches' = insertSorted(touches, t)
    /\ LET event == TouchEvent(TOUCH_START, t, touches')
           m == onPointerish(IF pointerEvents
                               THEN onPointerish(tracker, pointerDown(TOUCH),
                                                 pointerEvents)
                               ELSE tracker,
                             event, pointerEvents)
       IN  /\ TrackerHeard(TOUCH_START, m)
           /\ ModalityDispatch(event, m)

ModalityTouchEnd ==
  \E i \in 1..Len(touches) :
    /\ touches' = removeAt(touches, i)
    /\ LET event == TouchEvent(TOUCH_END, touches[i], touches')
           m == onPointerish(tracker, event, pointerEvents)
       IN  /\ TrackerHeard(TOUCH_END, m)
           /\ ModalityDispatch(event, m)

ModalityNext ==
  \/ ModalityKeyDown \/ WindowBlur \/ WindowFocus
  \/ ModalityMouseDown \/ ModalityMouseUp
  \/ ModalityTouchStart \/ ModalityTouchEnd
  \/ ClearLog

ModalitySpec == ModalityInit /\ [][ModalityNext]_vars

\* C38: while the window is blurred, after any number of consecutive blur
\* events with no other event between them, modality and activeModality are
\* both 'keyboard', and the window focus that follows restores both to the
\* values they had immediately before the first of these blurs.
C38_BlurRestores ==
  /\ blurs > 0 =>
       tracker.modality = KEYBOARD /\ tracker.activeModality = KEYBOARD
  /\ lastWindow = "focus" =>
       <<tracker.modality, tracker.activeModality>> = beforeBlur

\* C35: a mouseup heard while the responder is a node that a mousedown
\* granted dispatches onResponderEnd and onResponderRelease to that node and
\* leaves no responder, whatever keys went down and whatever else changed
\* the modality since the mousedown.
C35_MouseUpReleases ==
  [][(/\ Cleared
      /\ lastEvent'.type = MOUSE_UP
      /\ grantedBy = MOUSE_DOWN
      /\ currentResponder.node # Null)
     => /\ \E i \in 1..Len(log') :
             log'[i] = <<"onResponderEnd", currentResponder.node>>
        /\ \E i \in 1..Len(log') :
             log'[i] = <<"onResponderRelease", currentResponder.node>>
        /\ currentResponder'.node = Null]_vars

(***************************************************************************)
(* The keyboard side of usePress.  The target and the hook are enabled,    *)
(* the config defines every callback, and the target is not natively       *)
(* interactive.  p is [state, calls]: stateRef.current and the callbacks   *)
(* of the config invoked so far.                                           *)
(***************************************************************************)
isKeySpacebar(key) == key = " " \/ key = "Spacebar"

isKeyActivator(key) == key = "Enter" \/ isKeySpacebar(key)

\* what the responder callbacks of usePress invoke of the config, for the
\* calls of one event
RECURSIVE pressNotified(_, _)
pressNotified(calls, node) ==
  IF calls = <<>> THEN <<>>
  ELSE (IF Head(calls) = <<"onResponderGrant", node>>
          THEN <<"onPressStart", "onPressChange(true)">>
        ELSE IF Head(calls) = <<"onResponderRelease", node>>
          THEN <<"onPressChange(false)", "onPressEnd">>
        ELSE IF Head(calls) = <<"onResponderTerminate", node>>
          THEN <<"onPressChange(false)", "onPressCancel">>
        ELSE <<>>)
       \o pressNotified(Tail(calls), node)

\* onKeyDown of the keyboard config of usePress
pressKeyDown(p, key, spacebarActivates) ==
  IF isKeyActivator(key) /\ (isKeySpacebar(key) => spacebarActivates)
       /\ p.state.active # TRUE
    THEN [state |-> [p.state EXCEPT !.active = TRUE],
          calls |-> p.calls \o <<"onPressStart", "onPressChange(true)">>]
    ELSE p

\* the keyup listener of the document; onTarget: the key came up on the
\* target
pressKeyUp(p, key, onTarget) ==
  IF p.state.active /\ isKeyActivator(key)
    THEN [state |-> [p.state EXCEPT !.active = FALSE],
          calls |-> p.calls \o <<"onPressChange(false)", "onPressEnd">>
                      \o IF onTarget THEN <<"onPress">> ELSE <<>>]
    ELSE p

(***************************************************************************)
(* The key-press specification: a mouse presses the target of usePress     *)
(* and keys go down and up on it, in any order.                            *)
(***************************************************************************)
MaxPressCalls == 8

Keys == {"Enter", " ", "a"}

\* r is what the responder system did with an event of the mouse at pos
KeyPressListened(r, pos) ==
  /\ Len(pressCalls) + 2 <= MaxPressCalls
  /\ currentResponder' = r.responder
  /\ trackedTouchCount' = r.count
  /\ log' = r.calls
  /\ press' = pressHandle(press, r.calls, pressNode, pos)
  /\ pressCalls' = pressCalls \o pressNotified(r.calls, pressNode)
  /\ UNCHANGED <<parent, config, touches, lastEvent, prevResponder,
                 prevCount, wanted, seen, tracked, counted, gestureVars,
                 lcaVars, wiringVars, panVars, hoverVars, focusVars,
                 modalityVars, outsideVars, pressPhase, elapsed, origin,
                 strayed, held, longPresses, presses>>

KeyPressMouseDown ==
  /\ trackedTouchCount = 0
  /\ \E pos \in PressPositions :
       KeyPressListened(eventListener(MouseEvent(MOUSE_DOWN, pressNode)), pos)

KeyPressMouseUp ==
  /\ trackedTouchCount > 0
  /\ \E pos \in PressPositions, t \in Nodes :
       KeyPressListened(eventListener(MouseEvent(MOUSE_UP, t)), pos)

\* the responder is terminated while the mouse is down
KeyPressTerminate ==
  /\ currentResponder.node # Null
  /\ KeyPressListened(terminateResponder, <<1, 1>>)

\* p is what a key listener left of [state, calls]
KeyHeard(p) ==
  /\ press' = p.state
  /\ pressCalls' = p.calls
  /\ UNCHANGED <<engineVars, historyVars, gestureVars, lcaVars, wiringVars,
                 panVars, hoverVars, focusVars, modalityVars, outsideVars,
                 pressPhase, elapsed, origin, strayed, held, longPresses,
                 presses>>

KeyPressKeyDown ==
  \E key \in Keys, spacebarActivates \in BOOLEAN :
    /\ Len(pressCalls) + 2 <= MaxPressCalls
    /\ KeyHeard(pressKeyDown([state |-> press, calls |-> pressCalls], key,
                             spacebarActivates))

KeyPressKeyUp ==
  \E key \in Keys, onTarget \in BOOLEAN :
    /\ Len(pressCalls) + 3 <= MaxPressCalls
    /\ KeyHeard(pressKeyUp([state |-> press, calls |-> pressCalls], key,
                           onTarget))

KeyPressNext ==
  \/ KeyPressMouseDown \/ KeyPressMouseUp \/ KeyPressTerminate
  \/ KeyPressKeyDown \/ KeyPressKeyUp

KeyPressSpec == PressInit /\ [][KeyPressNext]_vars

\* the calls among names, in order
callsAmong(calls, names) == SelectSeq(calls, LAMBDA c : c \in names)

\* C36: the press-start and press-end notifications of usePress alternate,
\* under every interleaving of mouse presses and activation keys: the first
\* is an onPressStart, each onPressStart is followed by one onPressEnd or
\* onPressCancel before the next onPressStart, and likewise
\* onPressChange(true) and onPressChange(false).
C36_PressAlternates ==
  LET ends == callsAmong(pressCalls,
                         {"onPressStart", "onPressEnd", "onPressCancel"})
      changes == callsAmong(pressCalls,
                            {"onPressChange(true)", "onPressChange(false)"})
  IN  /\ \A i \in 1..Len(ends) : (ends[i] = "onPressStart") <=> (i % 2 = 1)
      /\ \A i \in 1..Len(changes) :
           (changes[i] = "onPressChange(true)") <=> (i % 2 = 1)

(***************************************************************************)
(* useInteractOutside.  A click listener of the document is the target     *)
(* and the disabled its closure holds; the elements are the Nodes, and     *)
(* every one of them is an HTMLElement that contains only itself.          *)
(***************************************************************************)
\* addEvent(document, 'click', listener): the registered after it
addEvent(registered, listener) == Append(registered, listener)

\* the callback useInteractOutside hands to useRefCallback: the registered
\* it leaves and what it returns
refCallback(registered, target, disabled) ==
  [registered |-> addEvent(registered,
                          [target |-> target, disabled |-> disabled]),
   cleanup |-> "undefined"]

\* the callback ref of useRefCallback, called with target; the cleanup of
\* the hook removes the listener added last
useRefCallback(registered, cleanup, target, disabled) ==
  LET cleaned == IF cleanup # "undefined"
                   THEN SubSeq(registered, 1, Len(registered) - 1)
                   ELSE registered
  IN  IF target # Null
        THEN refCallback(cleaned, target, disabled)
        ELSE [registered |-> cleaned, cleanup |-> "undefined"]

\* clickListener calls onInteractOutside for a click on clicked
clickListener(listener, clicked) ==
  /\ ~listener.disabled
  /\ listener.target # Null
  /\ listener.target # clicked

(***************************************************************************)
(* The interact-outside specification: React attaches the ref to an        *)
(* element, detaches it, replaces the element, or renders the host with    *)
(* another config, and clicks reach the document.                          *)
(***************************************************************************)
MaxListeners == 3

\* React called the callback ref with target; a new ref is called after the
\* old one was called with null
RefCalled(target, disabled) ==
  LET r == useRefCallback(clickListeners, cleanupRef, target, disabled)
  IN  /\ clickListeners' = r.registered
      /\ cleanupRef' = r.cleanup
      /\ outsideTarget' = target
      /\ outsideDisabled' = disabled
      /\ outsideCalls' = 0
      /\ lastClick' = "none"
      /\ UNCHANGED <<engineVars, historyVars, gestureVars, lcaVars,
                     wiringVars, pressVars, panVars, hoverVars, focusVars,
                     modalityVars, pressCalls>>

OutsideAttach ==
  \E target \in Nodes :
    /\ outsideTarget = Null
    /\ Len(clickListeners) < MaxListeners
    /\ RefCalled(target, outsideDisabled)

OutsideDetach ==
  /\ outsideTarget # Null
  /\ RefCalled(Null, outsideDisabled)

\* the host renders another element: the ref is called with null, then
\* with the new element
OutsideReplace ==
  \E target \in Nodes \ {outsideTarget} :
    /\ outsideTarget # Null
    /\ Len(clickListeners) < MaxListeners
    /\ LET detached == useRefCallback(clickListeners, cleanupRef, Null,
                                      outsideDisabled)
           r == useRefCallback(detached.registered, detached.cleanup, target,
                               outsideDisabled)
       IN  /\ clickListeners' = r.registered
           /\ cleanupRef' = r.cleanup
    /\ outsideTarget' = target
    /\ outsideCalls' = 0
    /\ lastClick' = "none"
    /\ UNCHANGED <<engineVars, historyVars, gestureVars, lcaVars, wiringVars,
                   pressVars, panVars, hoverVars, focusVars, modalityVars,
                   pressCalls, outsideDisabled>>

\* a render with another disabled: the old ref is called with null and the
\* new one with the element, when there is one
OutsideRender ==
  /\ Len(clickListeners) < MaxListeners
  /\ LET detached == useRefCallback(clickListeners, cleanupRef, Null,
                                    outsideDisabled)
         r == useRefCallback(detached.registered, detached.cleanup,
                             outsideTarget, ~outsideDisabled)
     IN  /\ clickListeners' = r.registered
         /\ cleanupRef' = r.cleanup
  /\ outsideDisabled' = ~outsideDisabled
  /\ outsideCalls' = 0
  /\ lastClick' = "none"
  /\ UNCHANGED <<engineVars, historyVars, gestureVars, lcaVars, wiringVars,
                 pressVars, panVars, hoverVars, focusVars, modalityVars,
                 pressCalls, outsideTarget>>

\* a click on an element, or on the document outside of every element
OutsideClick ==
  \E clicked \in Nodes \cup {Window} :
    /\ outsideCalls' =
         Cardinality({ i \in 1..Len(clickListeners) :
                         clickListener(clickListeners[i], clicked) })
    /\ lastClick' = IF clicked = outsideTarget THEN "inside" ELSE "outside"
    /\ UNCHANGED <<engineVars, historyVars, gestureVars, lcaVars, wiringVars,
                   pressVars, panVars, hoverVars, focusVars, modalityVars,
                   pressCalls, clickListeners, cleanupRef, outsideTarget,
                   outsideDisabled>>

OutsideInit ==
  /\ Init
  /\ parent = <<Null, 1, 2>>

OutsideNext ==
  \/ OutsideAttach \/ OutsideDetach \/ OutsideReplace \/ OutsideRender
  \/ OutsideClick

OutsideSpec == OutsideInit /\ [][OutsideNext]_vars

\* C39: a useInteractOutside instance has at most one click listener on the
\* document at any time, so a click invokes onInteractOutside at most once,
\* and not at all once the target has been detached.
C39_OneClickListener ==
  /\ Len(clickListeners) <= 1
  /\ outsideCalls <= 1
  /\ (lastClick # "none" /\ outsideTarget = Null) => outsideCalls = 0

====
